---- MODULE Spec2Model ----
(***************************************************************************)
(* NoteTimes: the storage layer (DbStorage over three relational tables,   *)
(* and the in-memory MemStorage), the session middleware, the REST routes, *)
(* the client's session fetch wrapper and the note input's text functions. *)
(*                                                                         *)
(* Strings that the code scans or trims are sequences of one-character     *)
(* strings; identifiers that the code only compares are TLA+ strings.      *)
(***************************************************************************)
EXTENDS Integers, Sequences, FiniteSets, TLC

VARIABLES
    impl,         \* which IStorage implementation backs `storage`
    sessions,     \* user_sessions rows / MemStorage.sessions keys
    notes,        \* notes rows / MemStorage.notes values
    variables,    \* variables rows / MemStorage.variables values
    folders,      \* MemStorage.folders: sessionId -> set of names
    nextNoteId,   \* next fresh note id (gen_random_uuid / randomUUID)
    nextVarId,    \* next fresh variable id
    now,          \* the time of the latest insert (defaultNow() / new Date())
    createdUnder, \* history: <<id, session>> of each stored note's creating request
    ops,          \* how many variable-writing requests have been served
    seen,         \* what the middleware read from the request being answered
    req,          \* the request being answered: its route and argument
    res,          \* its response
    \* the browser
    stored,       \* SessionManager.sessionId (and its localStorage copy)
    cookieJar,    \* the browser's sessionId cookie
    flights,      \* sessionFetch calls awaiting fetch()
    nextReq,      \* how many sessionFetch calls have been made, plus one
    \* the note input
    tvars,        \* the variables query's data, in list order
    content,      \* the textarea's text
    cursor,       \* textareaRef.current.selectionStart
    showAutocomplete,
    autocompletePosition,
    filteredOptions,
    selectedIndex,
    submitted,    \* the InsertNote of the pending createNoteMutation, if any
    attachedFiles, \* the files attached to the draft, in order
    lastOp,       \* the handler that ran last
    \* the variable importer
    textInput,    \* the importer's textarea
    importing,    \* the variables importVariablesMutation has still to post
    \* the notes list and the download menu
    shownNote,    \* the note handed to the renderer or the export
    folderName,   \* NoteDownload's folderName prop
    parts,        \* what renderContentWithHighlights returned
    html          \* the document downloadNotesAsHTML built

clientVars == <<stored, cookieJar, flights, nextReq>>

textVars == <<tvars, content, cursor, showAutocomplete, autocompletePosition,
              filteredOptions, selectedIndex, submitted, attachedFiles, lastOp>>

importVars == <<textInput, importing>>

viewVars == <<shownNote, folderName, parts, html>>

serverVars == <<impl, sessions, notes, variables, folders, nextNoteId, nextVarId,
                now, createdUnder, ops, seen, req, res>>

vars == <<impl, sessions, notes, variables, folders, nextNoteId, nextVarId,
          now, createdUnder, ops, seen, req, res, clientVars, textVars, importVars, viewVars>>

----------------------------------------------------------------------------
(* Bounds and input domains *)

MaxNotes == 2
MaxVarOps == 2
MaxRequests == 3
MaxLen == 3
MaxImportLen == 4

None == "none"
SessionIds == {"s1", "s2"}
\* what a client can put in the x-session-id header or the sessionId cookie
HeaderValues == SessionIds \cup {"", None}
Impls == {"db", "mem"}

GENERAL == <<"G">>
UNDEF == <<"undefined">>
NULLV == <<"null">>
WORK == <<"W">>

Range(q) == {q[i] : i \in DOMAIN q}

----------------------------------------------------------------------------
(* shared/schema.ts, server/db-storage.ts: variables *)

DefaultVariables ==
    << [name |-> "user",    values |-> <<"John Doe", "Jane Smith", "Bob Wilson">>],
       [name |-> "company", values |-> <<"Acme Inc", "Tech Corp", "Innovation Labs">>],
       [name |-> "project", values |-> <<"Alpha", "Beta", "Gamma">>] >>

\* A storage call's outcome: whether it threw, and the tables afterwards.
Outcome(ok, S, V, F, nv) ==
    [ok |-> ok, sessions |-> S, variables |-> V, folders |-> F, nextVarId |-> nv]

\* `insertVariable.values ? [...insertVariable.values] : []`
OrEmpty(values) == IF values = UNDEF THEN <<>> ELSE values

\* A createVariable that inserts without looking for the pair.
DbCreateVariableInsertOnly(S, V, nv, iv) ==
    [ok |-> TRUE, nextVarId |-> nv + 1,
     variables |-> V \cup {[id |-> nv, sessionId |-> iv.sessionId,
                            name |-> iv.name, values |-> OrEmpty(iv.values)]}]

\* DbStorage.createVariable: select by (sessionId, name), update the hit or insert.
\* The insert is refused by the foreign key on user_sessions.session_id.
DbCreateVariable(S, V, nv, iv) ==
    LET existing == {v \in V : v.sessionId = iv.sessionId /\ v.name = iv.name}
    IN  IF existing # {}
        THEN LET e == CHOOSE v \in existing : TRUE
             IN  [ok |-> TRUE, nextVarId |-> nv,
                  variables |-> (V \ {e}) \cup {[e EXCEPT !.values = OrEmpty(iv.values)]}]
        ELSE IF iv.sessionId \notin S
        THEN [ok |-> FALSE, nextVarId |-> nv, variables |-> V]
        ELSE [ok |-> TRUE, nextVarId |-> nv + 1,
              variables |-> V \cup {[id |-> nv, sessionId |-> iv.sessionId,
                                     name |-> iv.name, values |-> OrEmpty(iv.values)]}]

\* MemStorage.createVariable: always a new entry under a fresh id.
MemCreateVariable(S, V, nv, iv) ==
    [ok |-> TRUE, nextVarId |-> nv + 1,
     variables |-> V \cup {[id |-> nv, sessionId |-> iv.sessionId,
                            name |-> iv.name, values |-> iv.values]}]

CreateVariable(im, S, V, nv, iv) ==
    IF im = "db" THEN DbCreateVariable(S, V, nv, iv) ELSE MemCreateVariable(S, V, nv, iv)

\* The three createVariable calls that end createSession, in order.
RECURSIVE CreateDefaults(_, _, _, _, _, _)
CreateDefaults(im, S, V, nv, sid, k) ==
    IF k > Len(DefaultVariables) THEN [ok |-> TRUE, nextVarId |-> nv, variables |-> V]
    ELSE LET d == DefaultVariables[k]
             r == CreateVariable(im, S, V, nv,
                     [sessionId |-> sid, name |-> d.name, values |-> d.values])
         IN  IF r.ok THEN CreateDefaults(im, S, r.variables, r.nextVarId, sid, k + 1)
             ELSE r

\* getVariables, the same filter in both implementations; the rows come in no
\* stated order, so the result is taken as the set of rows.
GetVariables(V, sid) == {v \in V : v.sessionId = sid}

\* The fields of a partial update: None or UNDEF stand for an omitted field.
Patched(v, upd) ==
    [id |-> v.id,
     sessionId |-> IF upd.sessionId # None THEN upd.sessionId ELSE v.sessionId,
     name |-> IF upd.name # None THEN upd.name ELSE v.name,
     values |-> IF upd.values # UNDEF THEN upd.values ELSE v.values]

\* DbStorage.updateVariable: update where id matches.  The statement fails with
\* nothing to set, on the unique (session_id, name) constraint and on the
\* foreign key; with no row updated the method throws.
DbUpdateVariable(S, V, id, upd) ==
    LET hit == {v \in V : v.id = id}
    IN  IF upd.sessionId = None /\ upd.name = None /\ upd.values = UNDEF
        THEN [ok |-> FALSE, variables |-> V]
        ELSE IF hit = {} THEN [ok |-> FALSE, variables |-> V]
        ELSE LET v == CHOOSE x \in hit : TRUE
                 w == Patched(v, upd)
             IN  IF \/ w.sessionId \notin S
                    \/ \E o \in V \ {v} : o.sessionId = w.sessionId /\ o.name = w.name
                 THEN [ok |-> FALSE, variables |-> V]
                 ELSE [ok |-> TRUE, variables |-> (V \ {v}) \cup {w}]

\* MemStorage.updateVariable: { ...existing, ...updateData } under the same id.
MemUpdateVariable(S, V, id, upd) ==
    LET hit == {v \in V : v.id = id}
    IN  IF hit = {} THEN [ok |-> FALSE, variables |-> V]
        ELSE LET v == CHOOSE x \in hit : TRUE
             IN  [ok |-> TRUE, variables |-> (V \ {v}) \cup {Patched(v, upd)}]

UpdateVariable(im, S, V, id, upd) ==
    IF im = "db" THEN DbUpdateVariable(S, V, id, upd) ELSE MemUpdateVariable(S, V, id, upd)

\* deleteVariable: by id alone, throwing when no variable has it.
DeleteVariable(V, id) ==
    IF \A v \in V : v.id # id THEN [ok |-> FALSE, variables |-> V]
    ELSE [ok |-> TRUE, variables |-> {v \in V : v.id # id}]

\* `variable.values || []`
ValuesOf(v) == IF v.values = UNDEF THEN <<>> ELSE v.values

\* An includes that never finds the value.
NeverIncludes(q, x) == FALSE

\* Array.prototype.includes
Includes(q, x) == \E k \in DOMAIN q : q[k] = x

\* DbStorage.addVariableValue: creates the variable when the session has none
\* of that name, else appends the value unless it is there.
DbAddVariableValue(S, V, nv, sid, name, value) ==
    LET existing == {v \in V : v.sessionId = sid /\ v.name = name}
    IN  IF existing = {}
        THEN DbCreateVariable(S, V, nv, [sessionId |-> sid, name |-> name, values |-> <<value>>])
        ELSE LET v == CHOOSE x \in existing : TRUE
             IN  [ok |-> TRUE, nextVarId |-> nv,
                  variables |-> IF Includes(ValuesOf(v), value) THEN V
                                ELSE (V \ {v}) \cup
                                     {[v EXCEPT !.values = Append(ValuesOf(v), value)]}]

\* MemStorage.addVariableValue: throws when the session has no such variable;
\* find() takes the first match in insertion order, the smallest id.
MemAddVariableValue(S, V, nv, sid, name, value) ==
    LET existing == {v \in V : v.sessionId = sid /\ v.name = name}
    IN  IF existing = {} THEN [ok |-> FALSE, nextVarId |-> nv, variables |-> V]
        ELSE LET v == CHOOSE x \in existing : \A y \in existing : x.id <= y.id
             IN  [ok |-> TRUE, nextVarId |-> nv,
                  variables |-> IF Includes(ValuesOf(v), value) THEN V
                                ELSE (V \ {v}) \cup
                                     {[v EXCEPT !.values = Append(ValuesOf(v), value)]}]

AddVariableValue(im, S, V, nv, sid, name, value) ==
    IF im = "db" THEN DbAddVariableValue(S, V, nv, sid, name, value)
    ELSE MemAddVariableValue(S, V, nv, sid, name, value)

----------------------------------------------------------------------------
(* sessions *)

\* DbStorage.createSession: the insert is refused when session_id is taken
\* (unique); MemStorage.createSession overwrites and seeds the folder set.
CreateSession(im, S, V, F, nv, sid) ==
    IF im = "db"
    THEN IF sid \in S THEN Outcome(FALSE, S, V, F, nv)
         ELSE LET r == CreateDefaults(im, S \cup {sid}, V, nv, sid, 1)
              IN  Outcome(r.ok, S \cup {sid}, r.variables, F, r.nextVarId)
    ELSE LET r == CreateDefaults(im, S \cup {sid}, V, nv, sid, 1)
             F2 == IF F[sid] = {} THEN [F EXCEPT ![sid] = {GENERAL}] ELSE F
         IN  Outcome(r.ok, S \cup {sid}, r.variables, F2, r.nextVarId)

GetSession(S, sid) == IF sid \in S THEN sid ELSE None

\* `if (!sessionId)`: undefined and the empty string are both falsy.
Truthy(x) == x # None /\ x # ""

\* A middleware that reads the cookie before the header.
ResolveCookieFirst(header, cookie, generated) ==
    IF Truthy(cookie) THEN cookie
    ELSE IF Truthy(header) THEN header
    ELSE generated

\* createSessionMiddleware: header, else cookie, else nanoid(21).
ResolveSessionId(header, cookie, generated) ==
    IF Truthy(header) THEN header
    ELSE IF Truthy(cookie) THEN cookie
    ELSE generated

\* The middleware's effect: the tables afterwards, the id put on the request,
\* the cookie it sets, and whether it called next() or next(error).
Middleware(header, cookie, generated) ==
    LET sid == ResolveSessionId(header, cookie, generated)
        isNew == ~Truthy(header) /\ ~Truthy(cookie)
        o == IF isNew \/ GetSession(sessions, sid) = None
             THEN CreateSession(impl, sessions, variables, folders, nextVarId, sid)
             ELSE Outcome(TRUE, sessions, variables, folders, nextVarId)
    IN  [ok |-> o.ok, sessionId |-> sid, setCookie |-> IF isNew THEN sid ELSE None,
         sessions |-> o.sessions, variables |-> o.variables, folders |-> o.folders,
         nextVarId |-> o.nextVarId]

----------------------------------------------------------------------------
(* notes and folders *)

NewNote(id, sid, folder, t) ==
    [id |-> id, sessionId |-> sid, folder |-> folder, createdAt |-> t]

\* DbStorage.createNote: an omitted folder takes the column default, an
\* explicit null is stored as NULL; the row needs its session (foreign key).
DbCreateNote(S, N, id, t, ins) ==
    IF ins.sessionId \notin S THEN [ok |-> FALSE, notes |-> N]
    ELSE [ok |-> TRUE,
          notes |-> N \cup {NewNote(id, ins.sessionId,
                              IF ins.folder = UNDEF THEN GENERAL ELSE ins.folder, t)}]

\* MemStorage.createNote: `insertNote.folder || "General"`.
MemCreateNote(S, N, id, t, ins) ==
    [ok |-> TRUE,
     notes |-> N \cup {NewNote(id, ins.sessionId,
                         IF ins.folder \in {UNDEF, NULLV, <<>>} THEN GENERAL
                         ELSE ins.folder, t)}]

CreateNote(im, S, N, id, t, ins) ==
    IF im = "db" THEN DbCreateNote(S, N, id, t, ins) ELSE MemCreateNote(S, N, id, t, ins)

\* DbStorage.deleteNote: delete where id and session match, throw on no row.
DbDeleteNote(N, sid, noteId) ==
    LET hit == {n \in N : n.id = noteId /\ n.sessionId = sid}
    IN  IF hit = {} THEN [ok |-> FALSE, notes |-> N]
        ELSE [ok |-> TRUE, notes |-> N \ hit]

\* MemStorage.deleteNote: throw when absent or owned by another session.
MemDeleteNote(N, sid, noteId) ==
    LET found == {n \in N : n.id = noteId}
    IN  IF found = {} THEN [ok |-> FALSE, notes |-> N]
        ELSE IF \E n \in found : n.sessionId # sid THEN [ok |-> FALSE, notes |-> N]
        ELSE [ok |-> TRUE, notes |-> N \ found]

\* A deleteNote that looks the note up by id alone.
DeleteNoteById(im, N, sid, noteId) ==
    LET found == {n \in N : n.id = noteId}
    IN  IF found = {} THEN [ok |-> FALSE, notes |-> N]
        ELSE [ok |-> TRUE, notes |-> N \ found]

DeleteNote(im, N, sid, noteId) ==
    IF im = "db" THEN DbDeleteNote(N, sid, noteId) ELSE MemDeleteNote(N, sid, noteId)

\* A delete with no WHERE clause.
DeleteEveryNote(N, sid) == {}

\* deleteAllNotes, the same in both implementations.
DeleteAllNotes(N, sid) == {n \in N : n.sessionId # sid}

\* A result in oldest-first order.
OrderingsAscending(im, rows) ==
    LET n == Cardinality(rows)
    IN  {q \in [1..n -> rows] :
            /\ \A i, j \in 1..n : i # j => q[i] # q[j]
            /\ \A i, j \in 1..n : i < j => q[i].createdAt <= q[j].createdAt}

\* The orders `ORDER BY created_at DESC` may return a set of rows in: rows with
\* equal timestamps come in any order.  MemStorage's sort is stable over the
\* map's insertion order, which is the order of the ids.
Orderings(im, rows) ==
    LET n == Cardinality(rows)
    IN  {q \in [1..n -> rows] :
            /\ \A i, j \in 1..n : i # j => q[i] # q[j]
            /\ \A i, j \in 1..n : i < j => q[i].createdAt >= q[j].createdAt
            /\ im = "mem" =>
                 \A i, j \in 1..n :
                     (i < j /\ q[i].createdAt = q[j].createdAt) => q[i].id < q[j].id}

\* A getNotes that leaves the session filter out.
GetNotesUnfiltered(im, N, sid) == Orderings(im, N)

GetNotes(im, N, sid) == Orderings(im, {n \in N : n.sessionId = sid})

GetNotesByFolder(im, N, sid, folder) ==
    Orderings(im, {n \in N : n.sessionId = sid /\ n.folder = folder})

\* String.prototype.trim over the characters the model uses.
RECURSIVE TrimStart(_)
TrimStart(w) == IF w # <<>> /\ Head(w) = " " THEN TrimStart(Tail(w)) ELSE w
RECURSIVE TrimEnd(_)
TrimEnd(w) ==
    IF w # <<>> /\ w[Len(w)] = " " THEN TrimEnd(SubSeq(w, 1, Len(w) - 1)) ELSE w
Trim(w) == TrimEnd(TrimStart(w))

\* UTF-16 code units of the characters folder names are written in.
Code(c) == CASE c = " " -> 32 [] c = "G" -> 71 [] c = "W" -> 87 [] OTHER -> 0

\* The order of Array.prototype.sort() on strings.
RECURSIVE LexLeq(_, _)
LexLeq(a, b) ==
    IF a = <<>> THEN TRUE
    ELSE IF b = <<>> THEN FALSE
    ELSE IF Code(Head(a)) # Code(Head(b)) THEN Code(Head(a)) < Code(Head(b))
    ELSE LexLeq(Tail(a), Tail(b))

RECURSIVE InsertSorted(_, _)
InsertSorted(q, x) ==
    IF q = <<>> THEN <<x>>
    ELSE IF LexLeq(x, Head(q)) THEN <<x>> \o q
    ELSE <<Head(q)>> \o InsertSorted(Tail(q), x)

\* `rows.map(r => r.folder || "General")` followed by sort().
RECURSIVE SortedNames(_)
SortedNames(D) ==
    IF D = {} THEN <<>>
    ELSE LET d == CHOOSE x \in D : TRUE
         IN  InsertSorted(SortedNames(D \ {d}), IF d \in {NULLV, <<>>} THEN GENERAL ELSE d)

\* DbStorage.getFolders: the distinct folder values of the session's notes,
\* "General" put in front when no row maps to it.
DbGetFolders(N, sid) ==
    LET D == {n.folder : n \in {x \in N : x.sessionId = sid}}
        q == SortedNames(D)
    IN  IF GENERAL \in Range(q) THEN q ELSE InsertSorted(q, GENERAL)

\* `Array.from(folders).sort()` over a Set.
RECURSIVE SortedSet(_)
SortedSet(D) ==
    IF D = {} THEN <<>>
    ELSE LET d == CHOOSE x \in D : TRUE IN InsertSorted(SortedSet(D \ {d}), d)

\* MemStorage.getFolders: the session's folder set joined with its notes' folders.
MemGetFolders(N, F, sid) ==
    LET own == IF F[sid] = {} THEN {GENERAL} ELSE F[sid]
    IN  SortedSet(own \cup {IF n.folder \in {NULLV, <<>>} THEN GENERAL ELSE n.folder :
                              n \in {x \in N : x.sessionId = sid}})

GetFolders(im, N, F, sid) ==
    IF im = "db" THEN DbGetFolders(N, sid) ELSE MemGetFolders(N, F, sid)

\* DbStorage.createFolder stores nothing: it checks the session and trims.
DbCreateFolder(S, F, sid, name) ==
    IF GetSession(S, sid) = None THEN [ok |-> FALSE, folders |-> F, name |-> None]
    ELSE [ok |-> TRUE, folders |-> F, name |-> Trim(name)]

\* MemStorage.createFolder adds the trimmed name to the session's set.
MemCreateFolder(S, F, sid, name) ==
    LET own == IF F[sid] = {} THEN {GENERAL} ELSE F[sid]
    IN  [ok |-> TRUE, folders |-> [F EXCEPT ![sid] = own \cup {Trim(name)}],
         name |-> Trim(name)]

CreateFolder(im, S, F, sid, name) ==
    IF im = "db" THEN DbCreateFolder(S, F, sid, name) ELSE MemCreateFolder(S, F, sid, name)

----------------------------------------------------------------------------
(* requests *)

\* A request as the middleware sees it; nanoid's result is drawn only when it
\* is used, and is an id no session has.
Incoming ==
    {i \in [header : HeaderValues, cookie : HeaderValues,
            generated : SessionIds \cup {None}] :
        IF Truthy(i.header) \/ Truthy(i.cookie) THEN i.generated = None
        ELSE i.generated \in SessionIds \ sessions}

\* Callers that send the header or nothing, and no cookie.
Callers == {i \in Incoming : i.cookie = None /\ i.header # ""}

Mw(i) == Middleware(i.header, i.cookie, i.generated)

\* What every route does first: the middleware's writes.
Entered(m) ==
    /\ m.ok
    /\ sessions' = m.sessions
    /\ variables' = m.variables
    /\ folders' = m.folders
    /\ nextVarId' = m.nextVarId

Respond(route, arg, m, status, body) ==
    /\ req' = [route |-> route, arg |-> arg]
    /\ res' = [status |-> status, sessionId |-> m.sessionId,
               setCookie |-> m.setCookie, body |-> body]

\* insertNoteSchema.parse({ ...req.body, sessionId })
\* Request bodies: with and without a sessionId field of their own, the folder
\* omitted, null or named, and one body the schema rejects (no content).
NoteBodies ==
    { [sessionId |-> None, folder |-> UNDEF, valid |-> TRUE],
      [sessionId |-> "s1", folder |-> WORK, valid |-> TRUE],
      [sessionId |-> "s2", folder |-> NULLV, valid |-> TRUE],
      [sessionId |-> None, folder |-> UNDEF, valid |-> FALSE] }
\* A parse that lets the body's own sessionId win: { sessionId, ...req.body }.
NoteDataBodyFirst(body, sessionId) ==
    [sessionId |-> IF body.sessionId # None THEN body.sessionId ELSE sessionId,
     folder |-> body.folder]

NoteData(body, sessionId) == [sessionId |-> sessionId, folder |-> body.folder]

\* The history kept for the notes that are still stored.
StillStored(h, N) == {p \in h : \E n \in N : n.id = p[1]}

\* app.get("/api/notes")
GetNotesRoute(i) ==
    \E m \in {Mw(i)} :
    /\ Entered(m)
    /\ \E q \in GetNotes(impl, notes, m.sessionId) : Respond("GET /api/notes", None, m, 200, q)
    /\ UNCHANGED <<impl, notes, nextNoteId, now, createdUnder>>

\* The clock at an insert: time 1 at the first, then the instant of the
\* previous insert or a later one.
Clock == IF nextNoteId = 1 THEN {1} ELSE {now, now + 1}

\* app.post("/api/notes"), the insert made at time t
PostNoteRoute(i, body, t) ==
    \E m \in {Mw(i)} :
    \E r \in {CreateNote(impl, m.sessions, notes, nextNoteId, t,
                         NoteData(body, m.sessionId))} :
    /\ Entered(m)
    /\ nextNoteId <= MaxNotes
    /\ IF ~body.valid
       THEN /\ Respond("POST /api/notes", body, m, 400, None)
            /\ UNCHANGED <<notes, nextNoteId, createdUnder, now>>
       ELSE IF ~r.ok
       THEN /\ Respond("POST /api/notes", body, m, 500, None)
            /\ UNCHANGED <<notes, nextNoteId, createdUnder, now>>
       ELSE /\ notes' = r.notes
            /\ nextNoteId' = nextNoteId + 1
            /\ createdUnder' = createdUnder \cup {<<nextNoteId, m.sessionId>>}
            /\ now' = t
            /\ Respond("POST /api/notes", body, m, 200, nextNoteId)
    /\ UNCHANGED impl

\* app.delete("/api/notes/:id")
DeleteNoteRoute(i, id) ==
    \E m \in {Mw(i)} :
    \E r \in {DeleteNote(impl, notes, m.sessionId, id)} :
    /\ Entered(m)
    /\ notes' = r.notes
    /\ createdUnder' = StillStored(createdUnder, r.notes)
    /\ Respond("DELETE /api/notes/:id", id, m, IF r.ok THEN 200 ELSE 500, None)
    /\ UNCHANGED <<impl, nextNoteId, now>>

\* app.delete("/api/notes")
DeleteAllNotesRoute(i) ==
    \E m \in {Mw(i)} :
    /\ Entered(m)
    /\ notes' = DeleteAllNotes(notes, m.sessionId)
    /\ createdUnder' = StillStored(createdUnder, notes')
    /\ Respond("DELETE /api/notes", None, m, 200, None)
    /\ UNCHANGED <<impl, nextNoteId, now>>

\* The characters %XX stands for, for the escapes the model's names use;
\* any other two characters after a '%' are not an escape.
Unescaped(a, b) ==
    CASE <<a, b>> = <<"5", "7">> -> "W"
      [] <<a, b>> = <<"4", "7">> -> "G"
      [] <<a, b>> = <<"2", "0">> -> " "
      [] <<a, b>> = <<"2", "5">> -> "%"
      [] OTHER -> None

\* decodeURIComponent: every %XX is replaced, a '%' that starts no escape
\* throws URIError.
RECURSIVE DecodeURIComponent(_)
DecodeURIComponent(w) ==
    IF w = <<>> THEN [ok |-> TRUE, value |-> <<>>]
    ELSE IF Head(w) # "%"
    THEN LET r == DecodeURIComponent(Tail(w))
         IN  [ok |-> r.ok, value |-> <<Head(w)>> \o r.value]
    ELSE IF Len(w) < 3 \/ Unescaped(w[2], w[3]) = None
    THEN [ok |-> FALSE, value |-> <<>>]
    ELSE LET r == DecodeURIComponent(SubSeq(w, 4, Len(w)))
         IN  [ok |-> r.ok, value |-> <<Unescaped(w[2], w[3])>> \o r.value]

\* app.get("/api/notes/folder/:folder"); folder is req.params.folder, which
\* Express has already decoded once.
GetNotesByFolderRoute(i, folder) ==
    \E m \in {Mw(i)} :
    \E d \in {DecodeURIComponent(folder)} :
    /\ Entered(m)
    /\ IF ~d.ok
       THEN Respond("GET /api/notes/folder/:folder", folder, m, 500, None)
       ELSE \E q \in GetNotesByFolder(impl, notes, m.sessionId, d.value) :
               Respond("GET /api/notes/folder/:folder", folder, m, 200, q)
    /\ UNCHANGED <<impl, notes, nextNoteId, now, createdUnder>>

\* app.get("/api/folders")
GetFoldersRoute(i) ==
    \E m \in {Mw(i)} :
    /\ Entered(m)
    /\ Respond("GET /api/folders", None, m, 200,
               GetFolders(impl, notes, m.folders, m.sessionId))
    /\ UNCHANGED <<impl, notes, nextNoteId, now, createdUnder>>

FolderNames == {UNDEF, <<>>, <<" ">>, WORK, <<" ", "W", " ">>}

\* app.post("/api/folders"); the middleware's writes are in m, the folder set
\* is written by createFolder.
PostFolderRoute(i, name) ==
    \E m \in {Mw(i)} :
    \E r \in {CreateFolder(impl, m.sessions, m.folders, m.sessionId, name)} :
    /\ m.ok
    /\ sessions' = m.sessions
    /\ variables' = m.variables
    /\ nextVarId' = m.nextVarId
    /\ IF name = UNDEF \/ name = <<>>
       THEN /\ folders' = m.folders
            /\ Respond("POST /api/folders", name, m, 400, None)
       ELSE IF ~r.ok
       THEN /\ folders' = m.folders
            /\ Respond("POST /api/folders", name, m, 500, None)
       ELSE /\ folders' = r.folders
            /\ Respond("POST /api/folders", name, m, 200, r.name)
    /\ UNCHANGED <<impl, notes, nextNoteId, now, createdUnder>>

\* app.delete("/api/folders/:name"); name is req.params.name, which Express
\* has already decoded once.
DeleteFolderRoute(i, name) ==
    \E m \in {Mw(i)} :
    \E d \in {DecodeURIComponent(name)} :
    /\ Entered(m)
    /\ IF ~d.ok
       THEN Respond("DELETE /api/folders/:name", name, m, 500, None)
       ELSE \E q \in GetNotesByFolder(impl, notes, m.sessionId, d.value) :
               Respond("DELETE /api/folders/:name", name, m,
                       IF Len(q) > 0 THEN 400 ELSE 200, None)
    /\ UNCHANGED <<impl, notes, nextNoteId, now, createdUnder>>

----------------------------------------------------------------------------
\* new SessionManager() in a browser with nothing in localStorage and no cookie
ClientInit ==
    /\ stored = None
    /\ cookieJar = None
    /\ flights = {}
    /\ nextReq = 1

\* The note input as mounted: useState("") and its neighbours, no variables.
InputIdle ==
    /\ content = <<>>
    /\ cursor = 0
    /\ showAutocomplete = FALSE
    /\ autocompletePosition = 0
    /\ filteredOptions = <<>>
    /\ selectedIndex = 0
    /\ submitted = <<>>
    /\ attachedFiles = <<>>
    /\ lastOp = "mount"

TextIdle == tvars = <<>> /\ InputIdle

\* The importer as mounted: useState('') and no mutation running.
ImportIdle ==
    /\ textInput = <<>>
    /\ importing = <<>>

\* Nothing rendered or exported yet.
ViewIdle ==
    /\ shownNote = [content |-> <<>>, tags |-> <<>>, folder |-> GENERAL]
    /\ folderName = UNDEF
    /\ parts = <<>>
    /\ html = <<>>

----------------------------------------------------------------------------
Init ==
    /\ impl \in Impls
    /\ sessions = {}
    /\ notes = {}
    /\ variables = {}
    /\ folders = [s \in SessionIds |-> {}]
    /\ nextNoteId = 1
    /\ nextVarId = 1
    /\ now = 0
    /\ createdUnder = {}
    /\ ops = 0
    /\ seen = [header |-> None, cookie |-> None, generated |-> None]
    /\ req = [route |-> "none", arg |-> None]
    /\ res = [status |-> 0, sessionId |-> None, setCookie |-> None, body |-> None]
    /\ ClientInit
    /\ TextIdle
    /\ ImportIdle
    /\ ViewIdle

\* The notes and folders API, called by header.
Next ==
    \/ \E i \in Callers : GetNotesRoute(i) /\ UNCHANGED <<seen, ops, clientVars, textVars, importVars, viewVars>>
    \/ \E i \in Callers, body \in NoteBodies, t \in Clock :
           PostNoteRoute(i, body, t) /\ UNCHANGED <<seen, ops, clientVars, textVars, importVars, viewVars>>
    \/ \E i \in Callers, id \in 1..MaxNotes : DeleteNoteRoute(i, id) /\ UNCHANGED <<seen, ops, clientVars, textVars, importVars, viewVars>>
    \/ \E i \in Callers : DeleteAllNotesRoute(i) /\ UNCHANGED <<seen, ops, clientVars, textVars, importVars, viewVars>>
    \/ \E i \in Callers, f \in {GENERAL, WORK} :
           GetNotesByFolderRoute(i, f) /\ UNCHANGED <<seen, ops, clientVars, textVars, importVars, viewVars>>

Spec == Init /\ [][Next]_vars

\* The ids of the stored notes whose creating request ran under session s.
CreatedUnder(s) == {p[1] : p \in {x \in createdUnder : x[2] = s}}

\* C1: notes are session-scoped.  In every reachable state, for every session
\* s, every list getNotes(s) can return holds each stored note whose sessionId
\* is s exactly once and nothing else, and these are the notes created by
\* requests that ran under s; getNotesByFolder(s, f) holds exactly those of them
\* whose folder is f; and the body GET /api/notes answered with is such a list.
C1_NotesSessionScoped ==
    /\ \A s \in SessionIds :
          /\ GetNotes(impl, notes, s) # {}
          /\ \A q \in GetNotes(impl, notes, s) :
                /\ Range(q) = {n \in notes : n.sessionId = s}
                /\ Len(q) = Cardinality(Range(q))
                /\ {n.id : n \in Range(q)} = CreatedUnder(s)
          /\ \A f \in {GENERAL, WORK, NULLV} :
                /\ GetNotesByFolder(impl, notes, s, f) # {}
                /\ \A q \in GetNotesByFolder(impl, notes, s, f) :
                      /\ Range(q) = {n \in notes : n.id \in CreatedUnder(s) /\ n.folder = f}
                      /\ Len(q) = Cardinality(Range(q))
    /\ req.route = "GET /api/notes" =>
          {n.id : n \in Range(res.body)} = CreatedUnder(res.sessionId)

\* Notes of two sessions are stored and GET /api/notes has answered one
\* session with its own notes only.
C1_Witness ==
    /\ req.route = "GET /api/notes"
    /\ res.body # <<>>
    /\ \E n \in notes : n.sessionId # res.sessionId

\* C3: every note that a step adds to the store (POST /api/notes is the only
\* route that adds one) has the session id the middleware resolved for that
\* request, whatever sessionId the request body carries.
C3_StoredUnderResolvedSession ==
    [][\A n \in notes' \ notes :
          /\ req'.route = "POST /api/notes"
          /\ n.sessionId = res'.sessionId
          /\ n.id = res'.body]_vars

\* A note was stored although the body named another session.
C3_Witness ==
    /\ req.route = "POST /api/notes"
    /\ res.status = 200
    /\ req.arg.sessionId \notin {None, res.sessionId}
    /\ \E n \in notes : n.id = res.body /\ n.sessionId = res.sessionId

\* C4: a DELETE /api/notes/:id step removes the note with that id when it is
\* stored and belongs to the request's session, and answers 200; in every other
\* case it answers 500 and the stored notes of every session are unchanged.
C4_DeleteOwnNoteOnly ==
    [][req'.route = "DELETE /api/notes/:id" =>
          LET own == {n \in notes : n.id = req'.arg /\ n.sessionId = res'.sessionId}
          IN  IF own # {}
              THEN notes' = notes \ own /\ res'.status = 200
              ELSE notes' = notes /\ res'.status = 500]_vars

\* A delete aimed at another session's note was refused and the note is kept.
C4_Witness ==
    /\ req.route = "DELETE /api/notes/:id"
    /\ res.status = 500
    /\ \E n \in notes : n.id = req.arg /\ n.sessionId # res.sessionId

\* The folders API beside note creation.
NextFolders ==
    \/ \E i \in Callers, body \in NoteBodies, t \in Clock :
           PostNoteRoute(i, body, t) /\ UNCHANGED <<seen, ops, clientVars, textVars, importVars, viewVars>>
    \/ \E i \in Callers : DeleteAllNotesRoute(i) /\ UNCHANGED <<seen, ops, clientVars, textVars, importVars, viewVars>>
    \/ \E i \in Callers : GetFoldersRoute(i) /\ UNCHANGED <<seen, ops, clientVars, textVars, importVars, viewVars>>
    \/ \E i \in Callers, n \in FolderNames : PostFolderRoute(i, n) /\ UNCHANGED <<seen, ops, clientVars, textVars, importVars, viewVars>>

SpecFolders == Init /\ [][NextFolders]_vars

\* C10: after POST /api/folders with name n has succeeded for a session, the
\* list GET /api/folders returns for that session contains the trimmed n, also
\* when no note has been assigned to that folder.
C10_CreatedFolderListed ==
    (req.route = "POST /api/folders" /\ res.status = 200) =>
        Trim(req.arg) \in Range(GetFolders(impl, notes, folders, res.sessionId))

----------------------------------------------------------------------------
\* Requests with every combination of header and cookie, the middleware's
\* inputs kept beside the response.
NextSession ==
    \/ \E i \in Incoming : GetNotesRoute(i) /\ seen' = i /\ UNCHANGED <<ops, clientVars, textVars, importVars, viewVars>>
    \/ \E i \in Incoming : GetFoldersRoute(i) /\ seen' = i /\ UNCHANGED <<ops, clientVars, textVars, importVars, viewVars>>
    \/ \E i \in Incoming : DeleteAllNotesRoute(i) /\ seen' = i /\ UNCHANGED <<ops, clientVars, textVars, importVars, viewVars>>

SpecSession == Init /\ [][NextSession]_vars

\* C6: whenever the middleware has passed a request on to its route handler,
\* the session id attached to the request is the x-session-id header value when
\* one (a non-empty one) was sent, else the sessionId cookie value when one was
\* sent, else the newly generated id, and a session record with that id is in
\* storage.
C6_AttachedSessionId ==
    res.status # 0 =>
        /\ res.sessionId =
              (CASE seen.header \notin {None, ""} -> seen.header
                 [] seen.header \in {None, ""} /\ seen.cookie \notin {None, ""} -> seen.cookie
                 [] OTHER -> seen.generated)
        /\ res.sessionId \in SessionIds
        /\ GetSession(sessions, res.sessionId) # None

\* A request that carried a header and a different cookie ran under the
\* header's session.
C6_Witness ==
    /\ res.status # 0
    /\ seen.header \in SessionIds
    /\ seen.cookie \in SessionIds \ {seen.header}
    /\ res.sessionId = seen.header

----------------------------------------------------------------------------
(* variables routes *)

\* What a variable-writing route does first: the middleware's writes to the
\* tables it does not touch itself, and the count of such requests.
EnteredVars(m) ==
    /\ m.ok
    /\ ops < MaxVarOps
    /\ ops' = ops + 1
    /\ sessions' = m.sessions
    /\ folders' = m.folders
    /\ UNCHANGED <<impl, notes, nextNoteId, now, createdUnder>>

\* app.get("/api/variables")
GetVariablesRoute(i) ==
    \E m \in {Mw(i)} :
    /\ Entered(m)
    /\ Respond("GET /api/variables", None, m, 200, GetVariables(m.variables, m.sessionId))
    /\ UNCHANGED <<impl, notes, nextNoteId, now, createdUnder, ops>>

\* Bodies of POST /api/variables: a name or none, values or none, and any
\* sessionId field of their own.
VariableBodies ==
    { [name |-> "user", values |-> <<"a">>, sessionId |-> None],
      [name |-> "x", values |-> <<"a">>, sessionId |-> "s1"],
      [name |-> "x", values |-> UNDEF, sessionId |-> "s2"],
      [name |-> None, values |-> <<"a">>, sessionId |-> None] }

\* insertVariableSchema.parse({ ...req.body, sessionId })
VariableData(body, sessionId) ==
    [sessionId |-> sessionId, name |-> body.name, values |-> body.values]

\* app.post("/api/variables")
PostVariableRoute(i, body) ==
    \E m \in {Mw(i)} :
    \E r \in {CreateVariable(impl, m.sessions, m.variables, m.nextVarId,
                             VariableData(body, m.sessionId))} :
    /\ EnteredVars(m)
    /\ IF body.name = None
       THEN /\ variables' = m.variables
            /\ nextVarId' = m.nextVarId
            /\ Respond("POST /api/variables", body, m, 400, None)
       ELSE /\ variables' = r.variables
            /\ nextVarId' = r.nextVarId
            /\ Respond("POST /api/variables", body, m, IF r.ok THEN 200 ELSE 500, None)

\* Bodies of PUT /api/variables/:id: insertVariableSchema.partial()
UpdateBodies ==
    { [name |-> "company", values |-> UNDEF, sessionId |-> None],
      [name |-> None, values |-> <<"a">>, sessionId |-> None],
      [name |-> None, values |-> UNDEF, sessionId |-> "s2"],
      [name |-> None, values |-> UNDEF, sessionId |-> None] }

\* The ids a client can name: those handed out so far and one never used.
VariableIds == 1..nextVarId

\* app.put("/api/variables/:id")
PutVariableRoute(i, id, body) ==
    \E m \in {Mw(i)} :
    \E r \in {UpdateVariable(impl, m.sessions, m.variables, id, body)} :
    /\ EnteredVars(m)
    /\ variables' = r.variables
    /\ nextVarId' = m.nextVarId
    /\ Respond("PUT /api/variables/:id", [id |-> id, body |-> body], m,
               IF r.ok THEN 200 ELSE 500, None)

\* app.delete("/api/variables/:id")
DeleteVariableRoute(i, id) ==
    \E m \in {Mw(i)} :
    \E r \in {DeleteVariable(m.variables, id)} :
    /\ EnteredVars(m)
    /\ variables' = r.variables
    /\ nextVarId' = m.nextVarId
    /\ Respond("DELETE /api/variables/:id", id, m, IF r.ok THEN 200 ELSE 500, None)

\* app.post("/api/variables/:name/values")
PostVariableValueRoute(i, name, value) ==
    \E m \in {Mw(i)} :
    \E r \in {AddVariableValue(impl, m.sessions, m.variables, m.nextVarId,
                               m.sessionId, name, value)} :
    /\ EnteredVars(m)
    /\ IF value = None
       THEN /\ variables' = m.variables
            /\ nextVarId' = m.nextVarId
            /\ Respond("POST /api/variables/:name/values",
                       [name |-> name, value |-> value], m, 400, None)
       ELSE /\ variables' = r.variables
            /\ nextVarId' = r.nextVarId
            /\ Respond("POST /api/variables/:name/values",
                       [name |-> name, value |-> value], m,
                       IF r.ok THEN 200 ELSE 500, None)

\* The tables once two clients have each made a first request.
TwoSessions(im) ==
    LET a == CreateSession(im, {}, {}, [s \in SessionIds |-> {}], 1, "s1")
    IN  CreateSession(im, a.sessions, a.variables, a.folders, a.nextVarId, "s2")

InitVars ==
    /\ impl \in Impls
    /\ sessions = TwoSessions(impl).sessions
    /\ variables = TwoSessions(impl).variables
    /\ folders = TwoSessions(impl).folders
    /\ nextVarId = TwoSessions(impl).nextVarId
    /\ notes = {}
    /\ nextNoteId = 1
    /\ now = 0
    /\ createdUnder = {}
    /\ ops = 0
    /\ seen = [header |-> None, cookie |-> None, generated |-> None]
    /\ req = [route |-> "none", arg |-> None]
    /\ res = [status |-> 0, sessionId |-> None, setCookie |-> None, body |-> None]
    /\ ClientInit
    /\ TextIdle
    /\ ImportIdle
    /\ ViewIdle

\* The variables API, called by two sessions.
NextVars ==
    \/ \E i \in Callers : GetVariablesRoute(i) /\ UNCHANGED <<seen, clientVars, textVars, importVars, viewVars>>
    \/ \E i \in Callers, body \in VariableBodies : PostVariableRoute(i, body) /\ UNCHANGED <<seen, clientVars, textVars, importVars, viewVars>>
    \/ \E i \in Callers, id \in VariableIds, body \in UpdateBodies :
           PutVariableRoute(i, id, body) /\ UNCHANGED <<seen, clientVars, textVars, importVars, viewVars>>
    \/ \E i \in Callers, id \in VariableIds : DeleteVariableRoute(i, id) /\ UNCHANGED <<seen, clientVars, textVars, importVars, viewVars>>
    \/ \E i \in Callers, name \in {"user", "x"}, value \in {None, "a", "Alpha"} :
           PostVariableValueRoute(i, name, value) /\ UNCHANGED <<seen, clientVars, textVars, importVars, viewVars>>

SpecVars == InitVars /\ [][NextVars]_vars

\* The routes the claim names.
VariableWriteRoutes ==
    {"POST /api/variables", "PUT /api/variables/:id", "DELETE /api/variables/:id",
     "POST /api/variables/:name/values"}

\* C2: variables are session-scoped.  No step that answers one of the four
\* variable-writing routes under session A changes what getVariables(B)
\* returns for any other session B.
C2_VariablesSessionScoped ==
    [][req'.route \in VariableWriteRoutes =>
          \A b \in SessionIds \ {res'.sessionId} :
              GetVariables(variables', b) = GetVariables(variables, b)]_vars

\* C5: in every reachable state no session holds two variables with the same
\* name, whichever IStorage implementation is in use.
C5_UniqueNamesPerSession ==
    \A v, w \in variables :
        (v.sessionId = w.sessionId /\ v.name = w.name) => v.id = w.id

----------------------------------------------------------------------------
(* the browser: SessionManager and createSessionFetch *)

\* SessionManager.getSessionHeaders: the header is set `if (this.sessionId)`.
GetSessionHeaders(sessionId) == IF Truthy(sessionId) THEN sessionId ELSE None

\* SessionManager.setSessionId, called when the response names another id.
SetSessionId(current, responseSessionId) ==
    IF Truthy(responseSessionId) /\ responseSessionId # current
    THEN responseSessionId ELSE current

\* sessionFetch up to `await fetch(...)`: the header from the session manager,
\* the cookie from the browser (credentials: 'include').
SessionFetchCall ==
    /\ nextReq <= MaxRequests
    /\ flights' = flights \cup
          {[id |-> nextReq, header |-> GetSessionHeaders(stored), cookie |-> cookieJar,
            phase |-> "sent", xSessionId |-> None, setCookie |-> None]}
    /\ nextReq' = nextReq + 1
    /\ UNCHANGED <<impl, sessions, notes, variables, folders, nextNoteId, nextVarId,
                   now, createdUnder, ops, seen, req, res, stored, cookieJar, textVars, importVars, viewVars>>

\* The server answers a request in flight (GET /api/notes stands for any
\* route behind the middleware).
Serve(f) ==
    /\ f.phase = "sent"
    /\ \E i \in Incoming :
          /\ i.header = f.header
          /\ i.cookie = f.cookie
          /\ GetNotesRoute(i)
          /\ seen' = i
    /\ flights' = (flights \ {f}) \cup
          {[f EXCEPT !.phase = "answered", !.xSessionId = res'.sessionId,
                     !.setCookie = res'.setCookie]}
    /\ UNCHANGED <<ops, stored, cookieJar, nextReq, textVars, importVars, viewVars>>

\* The response reaches the browser, which stores the cookie it sets.
Arrive(f) ==
    /\ f.phase = "answered"
    /\ cookieJar' = IF f.setCookie # None THEN f.setCookie ELSE cookieJar
    /\ flights' = (flights \ {f}) \cup {[f EXCEPT !.phase = "arrived"]}
    /\ UNCHANGED <<impl, sessions, notes, variables, folders, nextNoteId, nextVarId,
                   now, createdUnder, ops, seen, req, res, stored, nextReq, textVars, importVars, viewVars>>

\* sessionFetch after the await: the response's x-session-id is stored when it
\* differs from the session manager's.
SessionFetchResume(f) ==
    /\ f.phase = "arrived"
    /\ stored' = SetSessionId(stored, f.xSessionId)
    /\ flights' = flights \ {f}
    /\ UNCHANGED <<impl, sessions, notes, variables, folders, nextNoteId, nextVarId,
                   now, createdUnder, ops, seen, req, res, cookieJar, nextReq, textVars, importVars, viewVars>>

NextClient ==
    \/ SessionFetchCall
    \/ \E f \in flights : Serve(f)
    \/ \E f \in flights : Arrive(f)
    \/ \E f \in flights : SessionFetchResume(f)

SpecClient == Init /\ [][NextClient]_vars

\* C7: once the client has stored a session id taken from a response, every
\* sessionFetch call made afterwards carries that id in x-session-id and no
\* later response changes the stored id (clearSession is never called).
C7_StoredIdStable ==
    [][stored # None =>
          /\ stored' = stored
          /\ \A f \in flights' : (\A g \in flights : g.id # f.id) => f.header = stored]_vars

----------------------------------------------------------------------------
(* the note input: text as sequences of characters *)

\* The characters note text is written in; "Z" stands for U+200B.
ZWSP == "Z"
Chars == {"/", "a", "A", " ", ZWSP}

\* \w over these characters
IsWord(c) == c \in {"a", "A"}

\* String.prototype.toLowerCase
ToLowerCase(w) == [k \in DOMAIN w |-> IF w[k] = "A" THEN "a" ELSE w[k]]

Min(a, b) == IF a < b THEN a ELSE b

\* w.substring(0, b) and w.substring(a): indices are clamped to the length
SubstringTo(w, b) == SubSeq(w, 1, Min(b, Len(w)))
SubstringFrom(w, a) == SubSeq(w, Min(a, Len(w)) + 1, Len(w))

\* w.lastIndexOf(c) and w.indexOf(c), -1 when absent
LastIndexOf(w, c) ==
    IF \E k \in DOMAIN w : w[k] = c
    THEN (CHOOSE k \in DOMAIN w : w[k] = c /\ \A j \in DOMAIN w : w[j] = c => j <= k) - 1
    ELSE -1
IndexOf(w, c) ==
    IF \E k \in DOMAIN w : w[k] = c
    THEN (CHOOSE k \in DOMAIN w : w[k] = c /\ \A j \in DOMAIN w : w[j] = c => j >= k) - 1
    ELSE -1

\* w.startsWith(t) and w.includes(t)
StartsWith(w, t) == Len(t) <= Len(w) /\ SubSeq(w, 1, Len(t)) = t
StringIncludes(w, t) == \E p \in 0..Len(w) : StartsWith(SubstringFrom(w, p), t)

\* replace(/\u200B([^\u200B]+)\u200B/g, '$1'): left to right, matches do not
\* overlap, a marker with no closing marker or with nothing inside stays.
RECURSIVE StripMarkers(_)
StripMarkers(w) ==
    IF w = <<>> THEN <<>>
    ELSE LET rest == Tail(w)
             close == IndexOf(rest, ZWSP)
         IN  IF Head(w) = ZWSP /\ close >= 1
             THEN SubstringTo(rest, close) \o StripMarkers(SubstringFrom(rest, close + 1))
             ELSE <<Head(w)>> \o StripMarkers(rest)

\* \b after the first k characters of w
WordBoundary(w, k) ==
    (k >= 1 /\ k <= Len(w) /\ IsWord(w[k])) # (k + 1 <= Len(w) /\ IsWord(w[k + 1]))

\* new RegExp(`/${name}\\b`) matches at the start of w
ReferenceAt(w, name) ==
    /\ StartsWith(w, <<"/">> \o name)
    /\ WordBoundary(w, Len(name) + 1)

\* w.replace(new RegExp(`/${name}\\b`, 'g'), value)
RECURSIVE ReplaceReferences(_, _, _)
ReplaceReferences(w, name, value) ==
    IF w = <<>> THEN <<>>
    ELSE IF ReferenceAt(w, name)
    THEN value \o ReplaceReferences(SubstringFrom(w, Len(name) + 1), name, value)
    ELSE <<Head(w)>> \o ReplaceReferences(Tail(w), name, value)

\* `variable.values && variable.values.length > 0 ? variable.values[0] : variable.name`
FirstValue(variable) ==
    IF variable.values # <<>> THEN variable.values[1] ELSE variable.name

\* variables.forEach(...): one replacement pass per variable, in list order,
\* each over the result of the pass before.
RECURSIVE SubstituteAll(_, _)
SubstituteAll(w, vs) ==
    IF vs = <<>> THEN w
    ELSE SubstituteAll(ReplaceReferences(w, Head(vs).name, FirstValue(Head(vs))), Tail(vs))

\* NoteInput.processContent
ProcessContent(rawContent, vs) ==
    [content |-> SubstituteAll(StripMarkers(rawContent), vs),
     originalContent |-> rawContent]

\* `variable.name.toLowerCase().includes(searchTerm)`, and the same for a value
MatchesExactCase(text, searchTerm) == StringIncludes(text, searchTerm)
Matches(text, searchTerm) == StringIncludes(ToLowerCase(text), searchTerm)

\* the `variable.values?.forEach` of handleInputChange
RECURSIVE ValueOptions(_, _, _)
ValueOptions(variable, values, searchTerm) ==
    IF values = <<>> THEN <<>>
    ELSE (IF Matches(Head(values), searchTerm)
          THEN <<[type |-> "value", variable |-> variable, value |-> Head(values),
                  matchedText |-> Head(values)]>>
          ELSE <<>>)
         \o ValueOptions(variable, Tail(values), searchTerm)

\* the `variables.forEach` of handleInputChange: a variable's name, then its values
RECURSIVE Options(_, _)
Options(vs, searchTerm) ==
    IF vs = <<>> THEN <<>>
    ELSE (IF Matches(Head(vs).name, searchTerm)
          THEN <<[type |-> "variable", variable |-> Head(vs), value |-> <<>>,
                  matchedText |-> Head(vs).name]>>
          ELSE <<>>)
         \o ValueOptions(Head(vs), Head(vs).values, searchTerm)
         \o Options(Tail(vs), searchTerm)

\* the comparator of options.sort
Compare(a, b, searchTerm) ==
    LET aText == ToLowerCase(a.matchedText)
        bText == ToLowerCase(b.matchedText)
    IN  IF aText = searchTerm /\ bText # searchTerm THEN -1
        ELSE IF bText = searchTerm /\ aText # searchTerm THEN 1
        ELSE IF StartsWith(aText, searchTerm) /\ ~StartsWith(bText, searchTerm) THEN -1
        ELSE IF StartsWith(bText, searchTerm) /\ ~StartsWith(aText, searchTerm) THEN 1
        ELSE Len(aText) - Len(bText)

\* Array.prototype.sort is stable: x goes before the first element it precedes
RECURSIVE Place(_, _, _)
Place(q, x, searchTerm) ==
    IF q = <<>> THEN <<x>>
    ELSE IF Compare(x, Head(q), searchTerm) < 0 THEN <<x>> \o q
    ELSE <<Head(q)>> \o Place(Tail(q), x, searchTerm)

RECURSIVE SortOptions(_, _)
SortOptions(q, searchTerm) ==
    IF q = <<>> THEN <<>>
    ELSE Place(SortOptions(SubSeq(q, 1, Len(q) - 1), searchTerm), q[Len(q)], searchTerm)

\* NoteInput.handleInputChange, with the textarea's selectionStart
HandleInputChange(value, selectionStart) ==
    /\ content' = value
    /\ cursor' = selectionStart
    /\ LET textBeforeCursor == SubstringTo(value, selectionStart)
           lastSlashIndex == LastIndexOf(textBeforeCursor, "/")
           searchTerm == ToLowerCase(SubstringFrom(textBeforeCursor, lastSlashIndex + 1))
       IN  \E options \in {SortOptions(Options(tvars, searchTerm), searchTerm)} :
             IF lastSlashIndex # -1 /\ ~StringIncludes(searchTerm, <<" ">>)
                /\ Len(options) > 0
             THEN /\ filteredOptions' = options
                  /\ showAutocomplete' = TRUE
                  /\ autocompletePosition' = lastSlashIndex
                  /\ selectedIndex' = 0
             ELSE /\ showAutocomplete' = FALSE
                  /\ UNCHANGED <<filteredOptions, autocompletePosition, selectedIndex>>
    /\ lastOp' = "handleInputChange"
    /\ UNCHANGED <<tvars, submitted, attachedFiles, serverVars, clientVars, importVars, viewVars>>

\* NoteInput.insertOption, with the cursor placed by its setTimeout
InsertOption(option) ==
    LET textBeforeCursor == SubstringTo(content, autocompletePosition)
        textAfterCursor == SubstringFrom(content, cursor)
        valueToInsert == IF option.type = "value"
                         THEN <<ZWSP>> \o option.value \o <<ZWSP>>
                         ELSE <<"/">> \o option.variable.name
        newContent == textBeforeCursor \o valueToInsert \o textAfterCursor
    IN  /\ Len(newContent) <= MaxLen
        /\ content' = newContent
        /\ showAutocomplete' = FALSE
        /\ cursor' = Len(textBeforeCursor) + Len(valueToInsert)
        /\ lastOp' = "insertOption"
        /\ UNCHANGED <<tvars, autocompletePosition, filteredOptions, selectedIndex,
                       submitted, attachedFiles>>

\* A file reference in the text: a camera before an image's name, a paper
\* clip before any other, then a space and the name.
FileRef(file) == <<IF file.image THEN "I" ELSE "C", " ">> \o file.name

\* attachedFiles.map(...).join('\n')
RECURSIVE FileList(_)
FileList(files) ==
    IF files = <<>> THEN <<>>
    ELSE IF Len(files) = 1 THEN FileRef(files[1])
    ELSE FileRef(files[1]) \o <<"N">> \o FileList(Tail(files))

\* `content + (content ? '\n' : '') + ref`
AppendLine(w, ref) == w \o (IF w # <<>> THEN <<"N">> ELSE <<>>) \o ref

\* handleSubmit's finalContent: the file list is added unless the text has it
FinalContent(w, files) ==
    IF files # <<>> /\ ~StringIncludes(w, FileList(files))
    THEN AppendLine(w, FileList(files)) ELSE w

\* NoteInput.handleSubmit; the text has no '#', so the tags are empty, and
\* the folder is the one selected. The attachments are cleared at once.
HandleSubmit ==
    /\ IF Trim(content) = <<>> /\ attachedFiles = <<>>
       THEN UNCHANGED <<submitted, attachedFiles>>
       ELSE /\ submitted' = <<ProcessContent(FinalContent(content, attachedFiles), tvars)>>
            /\ attachedFiles' = <<>>
    /\ lastOp' = "handleSubmit"
    /\ UNCHANGED <<tvars, content, cursor, showAutocomplete, autocompletePosition,
                   filteredOptions, selectedIndex>>

Keys == {"ArrowDown", "ArrowUp", "Tab", "Enter", "Escape"}

\* NoteInput.handleKeyDown
HandleKeyDown(key) ==
    /\ IF showAutocomplete
       THEN CASE key = "ArrowDown" ->
                   /\ selectedIndex' = IF selectedIndex < Len(filteredOptions) - 1
                                        THEN selectedIndex + 1 ELSE selectedIndex
                   /\ lastOp' = "handleKeyDown"
                   /\ UNCHANGED <<tvars, content, cursor, showAutocomplete,
                                  autocompletePosition, filteredOptions, submitted, attachedFiles>>
              [] key = "ArrowUp" ->
                   /\ selectedIndex' = IF selectedIndex > 0
                                        THEN selectedIndex - 1 ELSE selectedIndex
                   /\ lastOp' = "handleKeyDown"
                   /\ UNCHANGED <<tvars, content, cursor, showAutocomplete,
                                  autocompletePosition, filteredOptions, submitted, attachedFiles>>
              [] key \in {"Tab", "Enter"} ->
                   IF selectedIndex + 1 \in DOMAIN filteredOptions
                   THEN InsertOption(filteredOptions[selectedIndex + 1])
                   ELSE /\ lastOp' = "handleKeyDown"
                        /\ UNCHANGED <<tvars, content, cursor, showAutocomplete,
                                       autocompletePosition, filteredOptions,
                                       selectedIndex, submitted, attachedFiles>>
              [] key = "Escape" ->
                   /\ showAutocomplete' = FALSE
                   /\ lastOp' = "handleKeyDown"
                   /\ UNCHANGED <<tvars, content, cursor, autocompletePosition,
                                  filteredOptions, selectedIndex, submitted, attachedFiles>>
       ELSE IF key = "Enter"
            THEN HandleSubmit
            ELSE /\ lastOp' = "handleKeyDown"
                 /\ UNCHANGED <<tvars, content, cursor, showAutocomplete,
                                autocompletePosition, filteredOptions, selectedIndex,
                                submitted, attachedFiles>>
    /\ UNCHANGED <<serverVars, clientVars, importVars, viewVars>>

\* createNoteMutation settles: onSuccess empties the text, onError only toasts
MutationSettled(success) ==
    /\ submitted # <<>>
    /\ submitted' = <<>>
    /\ IF success
       THEN content' = <<>> /\ cursor' = 0
       ELSE UNCHANGED <<content, cursor>>
    /\ lastOp' = IF success THEN "onSuccess" ELSE "onError"
    /\ UNCHANGED <<tvars, showAutocomplete, autocompletePosition, filteredOptions,
                   selectedIndex, attachedFiles, serverVars, clientVars, importVars, viewVars>>

\* The variables the note input works with: a value that reads as a reference
\* to a later variable which has no values; one variable with one value.
VariableLists ==
    { <<>>,
      << [name |-> <<"a">>, values |-> << <<"/", "A">> >>],
         [name |-> <<"A">>, values |-> <<>>] >>,
      << [name |-> <<"A">>, values |-> << <<"A">> >>] >> }

\* The user types c at the cursor, deletes the character before it, moves the
\* cursor, clicks an option or the Save button; edits wait for a pending save.
TypeChar(c) ==
    /\ submitted = <<>>
    /\ Len(content) < MaxLen
    /\ HandleInputChange(SubstringTo(content, cursor) \o <<c>> \o SubstringFrom(content, cursor),
                         cursor + 1)

Backspace ==
    /\ submitted = <<>>
    /\ cursor > 0
    /\ HandleInputChange(SubstringTo(content, cursor - 1) \o SubstringFrom(content, cursor),
                         cursor - 1)

MoveCursor(c) ==
    /\ submitted = <<>>
    /\ c # cursor
    /\ cursor' = c
    /\ lastOp' = "select"
    /\ UNCHANGED <<tvars, content, showAutocomplete, autocompletePosition,
                   filteredOptions, selectedIndex, submitted, attachedFiles, serverVars, clientVars, importVars, viewVars>>

ClickOption(k) ==
    /\ showAutocomplete
    /\ InsertOption(filteredOptions[k])
    /\ UNCHANGED <<serverVars, clientVars, importVars, viewVars>>

\* the Save button is disabled while the text is blank with no file attached,
\* or a save is pending
ClickSave ==
    /\ Trim(content) # <<>> \/ attachedFiles # <<>>
    /\ submitted = <<>>
    /\ HandleSubmit
    /\ UNCHANGED <<serverVars, clientVars, importVars, viewVars>>

InitText ==
    /\ impl = "db"
    /\ sessions = {}
    /\ notes = {}
    /\ variables = {}
    /\ folders = [s \in SessionIds |-> {}]
    /\ nextNoteId = 1
    /\ nextVarId = 1
    /\ now = 0
    /\ createdUnder = {}
    /\ ops = 0
    /\ seen = [header |-> None, cookie |-> None, generated |-> None]
    /\ req = [route |-> "none", arg |-> None]
    /\ res = [status |-> 0, sessionId |-> None, setCookie |-> None, body |-> None]
    /\ ClientInit
    /\ tvars \in VariableLists
    /\ InputIdle
    /\ ImportIdle
    /\ ViewIdle

NextText ==
    \/ \E c \in Chars : TypeChar(c)
    \/ Backspace
    \/ \E c \in 0..Len(content) : MoveCursor(c)
    \/ \E k \in DOMAIN filteredOptions : ClickOption(k)
    \/ \E key \in Keys : HandleKeyDown(key)
    \/ ClickSave
    \/ \E success \in BOOLEAN : MutationSettled(success)

SpecText == InitText /\ [][NextText]_vars

\* The text with every reference replaced in one pass: what a reference is
\* replaced by is not scanned again.
RECURSIVE Resolved(_, _)
Resolved(w, vs) ==
    IF w = <<>> THEN <<>>
    ELSE IF \E k \in DOMAIN vs : ReferenceAt(w, vs[k].name)
    THEN LET k == CHOOSE i \in DOMAIN vs :
                      /\ ReferenceAt(w, vs[i].name)
                      /\ \A j \in DOMAIN vs : ReferenceAt(w, vs[j].name) => i <= j
         IN  FirstValue(vs[k]) \o Resolved(SubstringFrom(w, Len(vs[k].name) + 1), vs)
    ELSE <<Head(w)>> \o Resolved(Tail(w), vs)

\* C8: on submit the note's content is the typed text with each pair of
\* markers removed around its value and every /name reference to a defined
\* variable replaced by that variable's first value (its name when it has no
\* values), all other text unchanged; originalContent is the typed text.
C8_SubmittedContent ==
    (lastOp = "handleSubmit" /\ Trim(content) # <<>>) =>
        /\ submitted # <<>>
        /\ submitted[1].originalContent = content
        /\ submitted[1].content = Resolved(StripMarkers(content), tvars)

\* text contains t, letters compared without regard to case
SameLetter(x, y) == x = y \/ {x, y} = {"a", "A"}
ContainsIgnoreCase(text, t) ==
    \E s \in 0..(Len(text) - Len(t)) : \A k \in 1..Len(t) : SameLetter(text[s + k], t[k])

\* C9: after an input change the autocomplete is shown if and only if the
\* text before the cursor contains a '/', no space lies between the last '/'
\* and the cursor, and some variable name or variable value contains the text
\* between them case-insensitively; otherwise it is hidden.
C9_AutocompleteShownIff ==
    lastOp = "handleInputChange" =>
        (showAutocomplete <=>
            \E p \in 1..cursor :
                /\ content[p] = "/"
                /\ \A q \in (p + 1)..cursor : content[q] \notin {"/", " "}
                /\ \E k \in DOMAIN tvars :
                      \/ ContainsIgnoreCase(tvars[k].name, SubSeq(content, p + 1, cursor))
                      \/ \E j \in DOMAIN tvars[k].values :
                            ContainsIgnoreCase(tvars[k].values[j], SubSeq(content, p + 1, cursor)))

\* the text before the cursor ends in /A, which only the lower-cased name
\* "a" of the variable A contains, and the autocomplete is shown
C9_Witness ==
    /\ lastOp = "handleInputChange"
    /\ showAutocomplete
    /\ cursor >= 2
    /\ content[cursor - 1] = "/"
    /\ content[cursor] = "a"
    /\ \A k \in DOMAIN tvars : tvars[k].name # <<"a">>

----------------------------------------------------------------------------
(* deleting folders *)

\* Folder names with a '%' in them: an escape of "W", and a bare '%'.
ESCAPED == <<"%", "5", "7">>
PERCENT == <<"%">>

FolderNoteBodies ==
    { [sessionId |-> None, folder |-> WORK, valid |-> TRUE],
      [sessionId |-> None, folder |-> ESCAPED, valid |-> TRUE],
      [sessionId |-> None, folder |-> PERCENT, valid |-> TRUE] }

FolderParams == {GENERAL, WORK, ESCAPED, PERCENT}

NextFolderDelete ==
    \/ \E i \in Callers, body \in FolderNoteBodies, t \in Clock :
           PostNoteRoute(i, body, t) /\ UNCHANGED <<seen, ops, clientVars, textVars, importVars, viewVars>>
    \/ \E i \in Callers, name \in FolderParams :
           DeleteFolderRoute(i, name) /\ UNCHANGED <<seen, ops, clientVars, textVars, importVars, viewVars>>

SpecFolderDelete == Init /\ [][NextFolderDelete]_vars

\* C11: DELETE /api/folders/:name answers 400 when the session has at least
\* one note in that folder and 200 otherwise, and in both outcomes leaves
\* every stored note of every session unchanged.
C11_DeleteFolderStatus ==
    [][req'.route = "DELETE /api/folders/:name" =>
          /\ res'.status =
                IF \E n \in notes : n.sessionId = res'.sessionId /\ n.folder = req'.arg
                THEN 400 ELSE 200
          /\ notes' = notes]_vars

----------------------------------------------------------------------------
(* the variable importer *)

\* The characters imported text is written in; "N" stands for a line feed.
NEWLINE == "N"
ImportChars == {"u", "=", ":", ",", "/", " ", NEWLINE}
\* Every text of up to MaxImportLen characters, and one of two lines that
\* name the same variable.
ImportTexts ==
    UNION {[1..n -> ImportChars] : n \in 0..MaxImportLen}
      \cup {<<"u", "=", "u", NEWLINE, "u", ":", ",">>}

\* The TLA+ string a sequence of characters spells: the request body's JSON.
RECURSIVE Spell(_)
Spell(w) == IF w = <<>> THEN "" ELSE Head(w) \o Spell(Tail(w))

\* text.split(c)
RECURSIVE Split(_, _)
Split(w, c) ==
    IF IndexOf(w, c) = -1 THEN <<w>>
    ELSE <<SubstringTo(w, IndexOf(w, c))>> \o Split(SubstringFrom(w, IndexOf(w, c) + 1), c)

\* [\w\-_]
IsNameChar(c) == c \in {"u", "-", "_"}

\* the length of the longest prefix of name characters
RECURSIVE NameRun(_)
NameRun(w) == IF w # <<>> /\ IsNameChar(Head(w)) THEN 1 + NameRun(Tail(w)) ELSE 0

\* line.match(/^\/?([\w\-_]+)[:=,]\s*(.+)$/) and the push of
\* { name: match[1].trim(), value: match[2].trim() }; no match gives nothing.
MatchLine(line) ==
    LET body == IF line # <<>> /\ Head(line) = "/" THEN Tail(line) ELSE line
        n == NameRun(body)
        rest == SubstringFrom(body, n + 1)
    IN  IF n >= 1 /\ Len(body) > n /\ body[n + 1] \in {":", "=", ","} /\ rest # <<>>
        THEN <<[name |-> Trim(SubstringTo(body, n)), value |-> Trim(rest)]>>
        ELSE <<>>

RECURSIVE MatchLines(_)
MatchLines(lines) ==
    IF lines = <<>> THEN <<>> ELSE MatchLine(Head(lines)) \o MatchLines(Tail(lines))

\* VariableImporter.parseVariables
ParseVariables(text) ==
    MatchLines(SelectSeq(Split(text, NEWLINE), LAMBDA line : Trim(line) # <<>>))

\* textInput.trim() is empty
IsBlank(w) == \A k \in DOMAIN w : w[k] \in {" ", NEWLINE}

\* The importer's textarea is filled in, once, after the page has loaded.
SetTextInput(text) ==
    /\ lastOp = "mount"
    /\ textInput = <<>>
    /\ importing = <<>>
    /\ text # <<>>
    /\ textInput' = text
    /\ lastOp' = "setTextInput"
    /\ UNCHANGED <<importing, tvars, content, cursor, showAutocomplete,
                   autocompletePosition, filteredOptions, selectedIndex, submitted, attachedFiles,
                   serverVars, clientVars, viewVars>>

\* VariableImporter.handleImport; the button is disabled on blank text and
\* while the mutation is pending.
HandleImport ==
    /\ ~IsBlank(textInput)
    /\ importing = <<>>
    /\ importing' = ParseVariables(textInput)
    /\ lastOp' = "handleImport"
    /\ UNCHANGED <<textInput, tvars, content, cursor, showAutocomplete,
                   autocompletePosition, filteredOptions, selectedIndex, submitted, attachedFiles,
                   serverVars, clientVars, viewVars>>

\* The browser the importer runs in sends the header of session s1.
ImportCaller == [header |-> "s1", cookie |-> None, generated |-> None]

\* What apiRequest sends for a parsed variable.
ImportBody(variable) ==
    [name |-> Spell(variable.name), value |-> Spell(variable.value),
     values |-> UNDEF, sessionId |-> None]

\* importVariablesMutation: one turn of its loop, and onSuccess after the last
ImportPost ==
    /\ importing # <<>>
    /\ PostVariableRoute(ImportCaller, ImportBody(Head(importing)))
    /\ importing' = Tail(importing)
    /\ textInput' = IF Tail(importing) = <<>> THEN <<>> ELSE textInput
    /\ lastOp' = "importVariablesMutation"
    /\ UNCHANGED <<tvars, content, cursor, showAutocomplete, autocompletePosition,
                   filteredOptions, selectedIndex, submitted, attachedFiles, seen, clientVars,
                   viewVars>>

NextImport ==
    \/ \E text \in ImportTexts : SetTextInput(text)
    \/ HandleImport
    \/ ImportPost

SpecImport == Init /\ [][NextImport]_vars

\* The (name, value) pairs a line of the form name=value, name:value,
\* name,value or /name=value states.
LineForms(line) ==
    LET Of(b) == {<<SubSeq(b, 1, k - 1), SubSeq(b, k + 1, Len(b))>> :
                    k \in {j \in 2..(Len(b) - 1) :
                             /\ b[j] \in {"=", ":", ","}
                             /\ \A h \in 1..(j - 1) : IsNameChar(b[h])
                             /\ b[j + 1] # " " /\ b[Len(b)] # " "}}
    IN  IF line # <<>> /\ Head(line) = "/" THEN Of(Tail(line)) ELSE Of(line)

\* C12: importing a line of the form name=value, name:value, name,value or
\* /name=value creates (or updates) in the session a variable named name whose
\* values contain value: handleImport hands every such line's pair to the
\* mutation, and after the mutation's POST for a pair the session has a
\* variable of that name whose values contain that value.
C12_ImportedValue ==
    [][/\ lastOp' = "handleImport" =>
            \A k \in DOMAIN Split(textInput, NEWLINE) :
              \A f \in LineForms(Split(textInput, NEWLINE)[k]) :
                \E j \in DOMAIN importing' :
                    importing'[j] = [name |-> f[1], value |-> f[2]]
       /\ lastOp' = "importVariablesMutation" =>
            \E v \in variables' :
                /\ v.sessionId = res'.sessionId
                /\ v.name = Spell(Head(importing).name)
                /\ Includes(ValuesOf(v), Spell(Head(importing).value))]_vars

----------------------------------------------------------------------------
(* the notes list: the key of the 'Variables' sort *)

\* text.match(new RegExp(`\\/${name}\\b`, 'g')): how many matches it finds
RECURSIVE MatchCount(_, _)
MatchCount(w, name) ==
    IF w = <<>> THEN 0
    ELSE IF ReferenceAt(w, name)
    THEN 1 + MatchCount(SubstringFrom(w, Len(name) + 1), name)
    ELSE MatchCount(Tail(w), name)

\* NotesArea.countVariableMentions: the matches in note.content, summed over
\* the variables
RECURSIVE CountVariableMentions(_, _)
CountVariableMentions(note, vs) ==
    IF vs = <<>> THEN 0
    ELSE MatchCount(note.content, Head(vs).name) + CountVariableMentions(note, Tail(vs))

\* The places of a text where a reference to one of the variables starts.
ReferencePlaces(w, vs) ==
    {p \in 1..Len(w) : \E k \in DOMAIN vs : ReferenceAt(SubSeq(w, p, Len(w)), vs[k].name)}

\* C13: for every note created through the note input, countVariableMentions
\* equals the number of /name references to currently defined variables in
\* the note's text as the user typed it (its originalContent).
C13_MentionsOfTypedText ==
    (lastOp = "handleSubmit" /\ submitted # <<>>) =>
        CountVariableMentions(submitted[1], tvars)
          = Cardinality(ReferencePlaces(submitted[1].originalContent, tvars))

----------------------------------------------------------------------------
(* adding a value to a variable *)

\* Variables are created and values are added to them, by two sessions.
NextValues ==
    \/ \E i \in Callers, body \in VariableBodies :
           PostVariableRoute(i, body) /\ UNCHANGED <<seen, clientVars, textVars, importVars, viewVars>>
    \/ \E i \in Callers, name \in {"user", "x"}, value \in {None, "a", "Alpha"} :
           PostVariableValueRoute(i, name, value)
             /\ UNCHANGED <<seen, clientVars, textVars, importVars, viewVars>>

SpecValues == InitVars /\ [][NextValues]_vars

\* C14: addVariableValue(s, name, v) on an existing variable appends v to its
\* values only when v is not already present: the values that were present
\* keep their order, nothing else changes, and applying it a second time with
\* the same arguments changes nothing.
C14_AddValueOnce ==
    [][(/\ req'.route = "POST /api/variables/:name/values"
        /\ res'.status = 200
        /\ \E v \in variables : v.sessionId = res'.sessionId /\ v.name = req'.arg.name) =>
          /\ \E v \in variables :
                /\ v.sessionId = res'.sessionId
                /\ v.name = req'.arg.name
                /\ variables' = (variables \ {v}) \cup
                      {[v EXCEPT !.values =
                          IF req'.arg.value \in Range(ValuesOf(v)) THEN ValuesOf(v)
                          ELSE ValuesOf(v) \o <<req'.arg.value>>]}
          /\ AddVariableValue(impl, sessions', variables', nextVarId', res'.sessionId,
                              req'.arg.name, req'.arg.value).variables = variables']_vars

\* the value "a" has just been added to the variable x, which an earlier
\* request created with the value "a": the values are still ["a"]
C14_Witness ==
    /\ req.route = "POST /api/variables/:name/values"
    /\ res.status = 200
    /\ ops = 2
    /\ nextVarId = TwoSessions(impl).nextVarId + 1
    /\ req.arg.name = "x"
    /\ req.arg.value = "a"
    /\ \E v \in variables :
          v.sessionId = res.sessionId /\ v.name = "x" /\ v.values = <<"a">>

----------------------------------------------------------------------------
(* the order of the notes *)

NewestFirst(q) == \A i, j \in DOMAIN q : i < j => q[i].createdAt >= q[j].createdAt

\* C15: getNotes and getNotesByFolder return the notes in non-increasing
\* createdAt order (newest first), after any sequence of creates and deletes;
\* so do the bodies the two routes answer with.
C15_NewestFirst ==
    /\ \A s \in SessionIds :
          /\ \A q \in GetNotes(impl, notes, s) : NewestFirst(q)
          /\ \A f \in {GENERAL, WORK, NULLV} :
                \A q \in GetNotesByFolder(impl, notes, s, f) : NewestFirst(q)
    /\ (req.route \in {"GET /api/notes", "GET /api/notes/folder/:folder"}
          /\ res.status = 200) => NewestFirst(res.body)

\* GET /api/notes has answered with two notes created at different times,
\* the later one first
C15_Witness ==
    /\ req.route = "GET /api/notes"
    /\ res.status = 200
    /\ Len(res.body) = 2
    /\ res.body[1].createdAt > res.body[2].createdAt
    /\ res.body[1].id > res.body[2].id

----------------------------------------------------------------------------
(* deleting all notes of a session *)

\* C16: deleteAllNotes(s) leaves getNotes(s) empty and leaves unchanged the
\* notes of every other session, every variable and every session record.
\* The step of DELETE /api/notes also holds the middleware's work, which adds
\* the session and its default variables when the session is new.
C16_DeleteAllNotesFrame ==
    [][req'.route = "DELETE /api/notes" =>
          /\ GetNotes(impl, notes', res'.sessionId) = {<<>>}
          /\ notes' = {n \in notes : n.sessionId # res'.sessionId}
          /\ sessions \subseteq sessions'
          /\ variables \subseteq variables'
          /\ res'.sessionId \in sessions => (sessions' = sessions /\ variables' = variables)]_vars

\* DELETE /api/notes has been answered, two notes were created, and the one
\* that is left belongs to another session
C16_Witness ==
    /\ req.route = "DELETE /api/notes"
    /\ res.status = 200
    /\ nextNoteId = 3
    /\ Cardinality(notes) = 1
    /\ \A n \in notes : n.sessionId # res.sessionId

----------------------------------------------------------------------------
(* the session middleware, one storage call at a time *)

\* A request that carries the session id sid in x-session-id reaches the
\* server.
RequestArrives(sid) ==
    /\ nextReq <= MaxRequests
    /\ flights' = flights \cup
          {[id |-> nextReq, header |-> sid, cookie |-> None, phase |-> "sent",
            xSessionId |-> None, setCookie |-> None]}
    /\ nextReq' = nextReq + 1
    /\ UNCHANGED <<serverVars, stored, cookieJar, textVars, importVars, viewVars>>

Step(f, phase) == flights' = (flights \ {f}) \cup {[f EXCEPT !.phase = phase]}

\* `const existingSession = await storage.getSession(sessionId)`
MwGetSession(f) ==
    /\ f.phase = "sent"
    /\ Step(f, IF GetSession(sessions, f.header) = None THEN "missing" ELSE "found")
    /\ UNCHANGED <<serverVars, stored, cookieJar, nextReq, textVars, importVars, viewVars>>

\* `await storage.createSession({ sessionId })`, its first statement: the
\* insert into user_sessions, which the unique session_id refuses for an id
\* that is there (the middleware's catch then calls next(error));
\* MemStorage sets the map entry and seeds the folder set.
MwInsertSession(f) ==
    /\ f.phase = "missing"
    /\ IF impl = "db" /\ f.header \in sessions
       THEN Step(f, "error") /\ UNCHANGED <<sessions, folders>>
       ELSE /\ Step(f, "inserted")
            /\ sessions' = sessions \cup {f.header}
            /\ folders' = IF impl = "mem" /\ folders[f.header] = {}
                           THEN [folders EXCEPT ![f.header] = {GENERAL}] ELSE folders
    /\ UNCHANGED <<impl, notes, variables, nextNoteId, nextVarId, now, createdUnder,
                   ops, seen, req, res, stored, cookieJar, nextReq, textVars, importVars, viewVars>>

\* the rest of createSession: the three default variables
MwDefaultVariables(f) ==
    /\ f.phase = "inserted"
    /\ \E r \in {CreateDefaults(impl, sessions, variables, nextVarId, f.header, 1)} :
          /\ variables' = r.variables
          /\ nextVarId' = r.nextVarId
          /\ Step(f, IF r.ok THEN "next" ELSE "error")
    /\ UNCHANGED <<impl, sessions, notes, folders, nextNoteId, now, createdUnder,
                   ops, seen, req, res, stored, cookieJar, nextReq, textVars, importVars, viewVars>>

\* `await storage.updateSessionActivity(sessionId)`
MwUpdateSessionActivity(f) ==
    /\ f.phase = "found"
    /\ Step(f, "next")
    /\ UNCHANGED <<serverVars, stored, cookieJar, nextReq, textVars, importVars, viewVars>>

\* next(): the route handler answers (GET /api/notes stands for any route);
\* next(error): Express answers 500 and no handler runs.
RouteAnswers(f) ==
    /\ f.phase \in {"next", "error"}
    /\ IF f.phase = "next"
       THEN \E q \in GetNotes(impl, notes, f.header) :
               Respond("GET /api/notes", None,
                       [sessionId |-> f.header, setCookie |-> None], 200, q)
       ELSE Respond("error", None, [sessionId |-> None, setCookie |-> None], 500, None)
    /\ flights' = (flights \ {f}) \cup
          {[f EXCEPT !.phase = IF f.phase = "next" THEN "answered" ELSE "failed",
                     !.xSessionId = IF f.phase = "next" THEN f.header ELSE None]}
    /\ UNCHANGED <<impl, sessions, notes, variables, folders, nextNoteId, nextVarId,
                   now, createdUnder, ops, seen, stored, cookieJar, nextReq, textVars,
                   importVars, viewVars>>

NextRace ==
    \/ \E sid \in SessionIds : RequestArrives(sid)
    \/ \E f \in flights : MwGetSession(f)
    \/ \E f \in flights : MwInsertSession(f)
    \/ \E f \in flights : MwDefaultVariables(f)
    \/ \E f \in flights : MwUpdateSessionActivity(f)
    \/ \E f \in flights : RouteAnswers(f)

SpecRace == Init /\ [][NextRace]_vars

\* C17: for any interleaving of two requests that carry the same session id
\* not yet known to storage, both requests reach their route handler without
\* a middleware error, and exactly one session record with that id exists
\* afterwards.
C17_BothRequestsServed ==
    \A f \in flights :
        /\ f.phase \notin {"error", "failed"}
        /\ f.phase \in {"next", "answered"} => f.header \in sessions

----------------------------------------------------------------------------
(* exports: fetch with cookies only *)

\* app.get("/api/export/text") and ("/api/export/json"): the notes of
\* req.sessionId
ExportRoute(i) ==
    \E m \in {Mw(i)} :
    /\ Entered(m)
    /\ \E q \in GetNotes(impl, notes, m.sessionId) : Respond("GET /api/export", None, m, 200, q)
    /\ UNCHANGED <<impl, notes, nextNoteId, now, createdUnder>>

\* handleExport up to `await fetch(...)`: credentials: 'include', no
\* x-session-id header.
HandleExport ==
    /\ nextReq <= MaxRequests
    /\ flights' = flights \cup
          {[id |-> nextReq, header |-> None, cookie |-> cookieJar,
            phase |-> "export", xSessionId |-> None, setCookie |-> None]}
    /\ nextReq' = nextReq + 1
    /\ UNCHANGED <<serverVars, stored, cookieJar, textVars, importVars, viewVars>>

ServeExport(f) ==
    /\ f.phase = "export"
    /\ \E i \in Incoming :
          /\ i.header = f.header
          /\ i.cookie = f.cookie
          /\ ExportRoute(i)
          /\ seen' = i
    /\ flights' = (flights \ {f}) \cup
          {[f EXCEPT !.phase = "exported", !.xSessionId = res'.sessionId,
                     !.setCookie = res'.setCookie]}
    /\ UNCHANGED <<ops, stored, cookieJar, nextReq, textVars, importVars, viewVars>>

\* The export's response reaches the browser, which stores the cookie it
\* sets; handleExport then saves the blob and touches no session state.
ExportArrives(f) ==
    /\ f.phase = "exported"
    /\ cookieJar' = IF f.setCookie # None THEN f.setCookie ELSE cookieJar
    /\ flights' = flights \ {f}
    /\ UNCHANGED <<serverVars, stored, nextReq, textVars, importVars, viewVars>>

NextExport ==
    \/ SessionFetchCall
    \/ \E f \in flights : Serve(f)
    \/ \E f \in flights : Arrive(f)
    \/ \E f \in flights : SessionFetchResume(f)
    \/ HandleExport
    \/ \E f \in flights : ServeExport(f)
    \/ \E f \in flights : ExportArrives(f)

SpecExport == Init /\ [][NextExport]_vars

\* C18: for a client whose API calls go through sessionFetch and whose
\* exports use fetch with cookies only, the session id in the sessionId
\* cookie equals the id stored by SessionManager whenever no request is in
\* flight, so an export answers for the session the note list shows.
C18_CookieMatchesStored == flights = {} => cookieJar = stored

----------------------------------------------------------------------------
(* addVariableValue, one query at a time *)

AddedValues == {"a", "b"}

\* POST /api/variables/:name/values reaches storage.addVariableValue for a
\* session that exists.
AddVariableValueCalled(sid, name, value) ==
    /\ nextReq <= MaxRequests
    /\ sid \in sessions
    /\ flights' = flights \cup
          {[id |-> nextReq, header |-> sid, name |-> name, value |-> value,
            phase |-> "called", rowId |-> 0, currentValues |-> <<>>]}
    /\ nextReq' = nextReq + 1
    /\ UNCHANGED <<serverVars, stored, cookieJar, textVars, importVars, viewVars>>

\* DbStorage.addVariableValue up to its first await's result: the select, and
\* createVariable when no row matched. MemStorage.addVariableValue has no
\* await inside and runs whole.
AddVariableValueSelect(f) ==
    /\ f.phase = "called"
    /\ LET existing == {v \in variables : v.sessionId = f.header /\ v.name = f.name}
       IN  IF impl = "db" /\ existing # {}
           THEN /\ \E v \in existing :
                     flights' = (flights \ {f}) \cup
                        {[f EXCEPT !.phase = "selected", !.rowId = v.id,
                                   !.currentValues = ValuesOf(v)]}
                /\ UNCHANGED <<variables, nextVarId>>
           ELSE \E r \in {AddVariableValue(impl, sessions, variables, nextVarId,
                                           f.header, f.name, f.value)} :
                /\ variables' = r.variables
                /\ nextVarId' = r.nextVarId
                /\ flights' = (flights \ {f}) \cup
                      {[f EXCEPT !.phase = IF r.ok THEN "returned" ELSE "thrown"]}
    /\ UNCHANGED <<impl, sessions, notes, folders, nextNoteId, now, createdUnder,
                   ops, seen, req, res, stored, cookieJar, nextReq, textVars, importVars, viewVars>>

\* DbStorage.addVariableValue after the select: the update writes the values
\* that were read, with the new one appended, to the row of the id read.
AddVariableValueUpdate(f) ==
    /\ f.phase = "selected"
    /\ variables' =
          IF Includes(f.currentValues, f.value) THEN variables
          ELSE {IF v.id = f.rowId
                THEN [v EXCEPT !.values = Append(f.currentValues, f.value)]
                ELSE v : v \in variables}
    /\ flights' = (flights \ {f}) \cup {[f EXCEPT !.phase = "returned"]}
    /\ UNCHANGED <<impl, sessions, notes, folders, nextNoteId, nextVarId, now,
                   createdUnder, ops, seen, req, res, stored, cookieJar, nextReq,
                   textVars, importVars, viewVars>>

NextAddValue ==
    \/ \E sid \in SessionIds, name \in {"user", "x"}, value \in AddedValues :
          AddVariableValueCalled(sid, name, value)
    \/ \E f \in flights : AddVariableValueSelect(f)
    \/ \E f \in flights : AddVariableValueUpdate(f)

SpecAddValue == InitVars /\ [][NextAddValue]_vars

\* C19: when two addVariableValue calls for the same existing variable of one
\* session, with two different values not yet present, run with their read
\* and write steps interleaved, the variable's values afterwards contain both
\* values: every call that has returned finds its value in the variable.
C19_BothValuesKept ==
    \A f \in flights :
        f.phase = "returned" =>
            \E v \in variables :
                /\ v.sessionId = f.header
                /\ v.name = f.name
                /\ f.value \in Range(ValuesOf(v))

----------------------------------------------------------------------------
(* createVariable as an upsert *)

VariablesOf(V, sid) == {v \in V : v.sessionId = sid}

\* C20: DbStorage.createVariable for a (session, name) pair that already
\* exists replaces that variable's values with the supplied ones, keeps its
\* id and name, and leaves the number of variables of the session unchanged;
\* for a pair that does not exist it adds exactly one variable with the
\* supplied values (none supplied is the empty list).
C20_CreateVariableUpserts ==
    [][(/\ impl = "db"
        /\ req'.route = "POST /api/variables"
        /\ res'.status = 200) =>
          LET sid == res'.sessionId
              name == req'.arg.name
              supplied == IF req'.arg.values = UNDEF THEN <<>> ELSE req'.arg.values
              existing == {v \in variables : v.sessionId = sid /\ v.name = name}
          IN  IF existing # {}
              THEN /\ \A e \in existing :
                        \E u \in variables' :
                            /\ u.id = e.id
                            /\ u.sessionId = sid
                            /\ u.name = e.name
                            /\ u.values = supplied
                            /\ variables' \ {u} = variables \ {e}
                   /\ Cardinality(VariablesOf(variables', sid))
                        = Cardinality(VariablesOf(variables, sid))
              ELSE \E u \in variables' \ variables :
                       /\ variables' = variables \cup {u}
                       /\ \A v \in variables : v.id # u.id
                       /\ u.sessionId = sid
                       /\ u.name = name
                       /\ u.values = supplied]_vars

\* under DbStorage a session's default variable user has just been given the
\* values ["a"] by POST /api/variables: it has the id it was seeded with, and
\* the session has its three variables
C20_Witness ==
    /\ impl = "db"
    /\ req.route = "POST /api/variables"
    /\ res.status = 200
    /\ req.arg.name = "user"
    /\ \E v \in variables, d \in TwoSessions("db").variables :
          /\ v.sessionId = res.sessionId
          /\ v.name = "user"
          /\ v.values = <<"a">>
          /\ d.id = v.id /\ d.sessionId = v.sessionId /\ d.name = v.name
    /\ Cardinality(VariablesOf(variables, res.sessionId)) = Len(DefaultVariables)

----------------------------------------------------------------------------
(* the draft: text and attached files *)

MaxFiles == 2
MaxDraftLen == 8

\* The files a user picks: an image and a document.
Files == {[name |-> <<"f">>, image |-> TRUE], [name |-> <<"g">>, image |-> FALSE]}

\* NoteInput.handleFileSelect; the caret of a textarea whose value is set
\* goes to its end.
HandleFileSelect(file) ==
    /\ Len(attachedFiles) < MaxFiles
    /\ Len(AppendLine(content, FileRef(file))) <= MaxDraftLen
    /\ attachedFiles' = Append(attachedFiles, file)
    /\ content' = AppendLine(content, FileRef(file))
    /\ cursor' = Len(content')
    /\ lastOp' = "handleFileSelect"
    /\ UNCHANGED <<tvars, showAutocomplete, autocompletePosition, filteredOptions,
                   selectedIndex, submitted, serverVars, clientVars, importVars, viewVars>>

\* prev.replace(new RegExp(`\\n?${fileRef}`, 'g'), '')
RECURSIVE RemoveAll(_, _)
RemoveAll(w, ref) ==
    IF w = <<>> THEN <<>>
    ELSE IF StartsWith(w, <<"N">> \o ref)
    THEN RemoveAll(SubstringFrom(w, Len(ref) + 1), ref)
    ELSE IF StartsWith(w, ref) THEN RemoveAll(SubstringFrom(w, Len(ref)), ref)
    ELSE <<Head(w)>> \o RemoveAll(Tail(w), ref)

\* prev.filter((_, i) => i !== index)
Without(files, index) ==
    SubSeq(files, 1, index - 1) \o SubSeq(files, index + 1, Len(files))

\* NoteInput.removeAttachment
RemoveAttachment(index) ==
    /\ index \in DOMAIN attachedFiles
    /\ attachedFiles' = Without(attachedFiles, index)
    /\ content' = RemoveAll(content, FileRef(attachedFiles[index]))
    /\ cursor' = Len(content')
    /\ lastOp' = "removeAttachment"
    /\ UNCHANGED <<tvars, showAutocomplete, autocompletePosition, filteredOptions,
                   selectedIndex, submitted, serverVars, clientVars, importVars, viewVars>>

\* Text is typed, files are attached and removed, the note is saved and the
\* creation succeeds or fails.
NextDraft ==
    \/ \E c \in {"a", " "} : TypeChar(c)
    \/ \E file \in Files : HandleFileSelect(file)
    \/ \E index \in 1..MaxFiles : RemoveAttachment(index)
    \/ ClickSave
    \/ \E success \in BOOLEAN : MutationSettled(success)

SpecDraft == InitText /\ [][NextDraft]_vars

\* C21: when creating a note fails, the draft is kept: neither the submit nor
\* the error that follows it changes the typed text or the list of attached
\* files; they are cleared only when the creation succeeds.
C21_DraftKept ==
    [][(lastOp' \in {"handleSubmit", "onError"}) =>
          (content' = content /\ attachedFiles' = attachedFiles)]_vars

----------------------------------------------------------------------------
(* the notes list: highlighted content *)

MaxShown == 4

\* The contents a stored note can have.
ShownTexts == UNION {[1..n -> Chars] : n \in 0..MaxShown}

\* w.slice(a, b)
Slice(w, a, b) == SubSeq(w, a + 1, b)

\* The matches of /\u200B([^\u200B]+)\u200B/g in w, which starts at index
\* `from` of the content: exec() resumes after each match.
RECURSIVE ResolvedMatches(_, _)
ResolvedMatches(w, from) ==
    IF w = <<>> THEN <<>>
    ELSE LET rest == Tail(w)
             close == IndexOf(rest, ZWSP)
         IN  IF Head(w) = ZWSP /\ close >= 1
             THEN <<[start |-> from, end |-> from + close + 2,
                     type |-> "resolved_value", text |-> SubstringTo(rest, close)]>>
                  \o ResolvedMatches(SubstringFrom(rest, close + 1), from + close + 2)
             ELSE ResolvedMatches(rest, from + 1)

\* The matches of new RegExp(`\\/${name}\\b`, 'g') in w
RECURSIVE VariableMatches(_, _, _)
VariableMatches(w, name, from) ==
    IF w = <<>> THEN <<>>
    ELSE IF ReferenceAt(w, name)
    THEN <<[start |-> from, end |-> from + Len(name) + 1,
            type |-> "variable", text |-> <<"/">> \o name]>>
         \o VariableMatches(SubstringFrom(w, Len(name) + 1), name, from + Len(name) + 1)
    ELSE VariableMatches(Tail(w), name, from + 1)

\* variables.forEach(...): the matches of each variable, in list order
RECURSIVE AllVariableMatches(_, _)
AllVariableMatches(w, vs) ==
    IF vs = <<>> THEN <<>>
    ELSE VariableMatches(w, Head(vs).name, 0) \o AllVariableMatches(w, Tail(vs))

\* matches.sort((a, b) => a.start - b.start): a stable sort
RECURSIVE SortByStart(_)
SortByStart(ms) ==
    IF ms = <<>> THEN <<>>
    ELSE LET sorted == SortByStart(SubSeq(ms, 1, Len(ms) - 1))
             m == ms[Len(ms)]
             k == Cardinality({i \in DOMAIN sorted : sorted[i].start <= m.start})
         IN  SubSeq(sorted, 1, k) \o <<m>> \o SubSeq(sorted, k + 1, Len(sorted))

\* matches.forEach(...) and the remaining text: the text before a match when
\* the match starts after lastIndex, the match itself, lastIndex = match.end
RECURSIVE BuildParts(_, _, _)
BuildParts(ms, w, lastIndex) ==
    IF ms = <<>>
    THEN IF lastIndex < Len(w)
         THEN <<[type |-> "text", text |-> Slice(w, lastIndex, Len(w))]>> ELSE <<>>
    ELSE LET m == Head(ms)
         IN  (IF m.start > lastIndex
              THEN <<[type |-> "text", text |-> Slice(w, lastIndex, m.start)]>> ELSE <<>>)
             \o <<[type |-> m.type, text |-> m.text]>>
             \o BuildParts(Tail(ms), w, m.end)

\* NotesArea.renderContentWithHighlights
RenderContentWithHighlights(w, vs) ==
    LET matches == SortByStart(ResolvedMatches(w, 0) \o AllVariableMatches(w, vs))
        built == BuildParts(matches, w, 0)
    IN  IF built # <<>> THEN built ELSE <<[type |-> "text", text |-> w]>>

\* The notes list shows a note with the content w; each behaviour has one.
RenderNote(w) ==
    /\ lastOp = "mount"
    /\ shownNote' = [content |-> w, tags |-> <<>>, folder |-> GENERAL]
    /\ parts' = RenderContentWithHighlights(w, tvars)
    /\ lastOp' = "renderContentWithHighlights"
    /\ UNCHANGED <<tvars, content, cursor, showAutocomplete, autocompletePosition,
                   filteredOptions, selectedIndex, submitted, attachedFiles,
                   folderName, html, serverVars, clientVars, importVars>>

NextRender == \E w \in ShownTexts : RenderNote(w)

SpecRender == InitText /\ [][NextRender]_vars

\* The text of the rendered parts, one after the other.
RECURSIVE RenderedText(_)
RenderedText(ps) == IF ps = <<>> THEN <<>> ELSE Head(ps).text \o RenderedText(Tail(ps))

\* A text without its marker characters.
RECURSIVE Unmarked(_)
Unmarked(w) ==
    IF w = <<>> THEN <<>>
    ELSE (IF Head(w) = ZWSP THEN <<>> ELSE <<Head(w)>>) \o Unmarked(Tail(w))

\* C22: renderContentWithHighlights renders every character of the content
\* exactly once and in order, the marker characters aside: the rendered parts
\* put together are the content with its markers removed, also when matches
\* overlap.
C22_RenderedOnce ==
    lastOp = "renderContentWithHighlights" =>
        Unmarked(RenderedText(parts)) = Unmarked(shownNote.content)

----------------------------------------------------------------------------
(* the download menu: the HTML export *)

MaxExported == 3

\* The characters of the exported texts; the document is a sequence of such
\* characters and of the export's own pieces, each piece one element.
ExportChars == {"<", "&", "/", "A", ZWSP}
ExportedTexts == UNION {[1..n -> ExportChars] : n \in 0..MaxExported}

\* The notes handed to NoteDownload: any content, no tag or one, a folder.
ExportedNotes ==
    [content : ExportedTexts, tags : {<<>>, << <<"A">> >>, << <<"<">> >>},
     folder : {GENERAL, WORK, <<"&">>}]

FolderNameProps == {UNDEF, WORK, <<"<">>}

SPAN == "<span class=\"variable\">"
SPANEND == "</span>"

\* w.replace(/c/g, piece) for a single character c
ReplaceChar(w, c, piece) == [k \in DOMAIN w |-> IF w[k] = c THEN piece ELSE w[k]]

\* `content.replace(/&/g, '&amp;').replace(/</g, '&lt;').replace(/>/g, '&gt;')`
EscapeHtml(w) ==
    ReplaceChar(ReplaceChar(ReplaceChar(w, "&", "&amp;"), "<", "&lt;"), ">", "&gt;")

\* replace(/\u200B([^\u200B]+)\u200B/g, '<span class="variable">$1</span>')
RECURSIVE SpanMarked(_)
SpanMarked(w) ==
    IF w = <<>> THEN <<>>
    ELSE LET rest == Tail(w)
             close == IndexOf(rest, ZWSP)
         IN  IF Head(w) = ZWSP /\ close >= 1
             THEN <<SPAN>> \o SubstringTo(rest, close) \o <<SPANEND>>
                  \o SpanMarked(SubstringFrom(rest, close + 1))
             ELSE <<Head(w)>> \o SpanMarked(rest)

\* The replacement is a single-quoted string, so `${variable.name}` is not
\* interpolated: every reference becomes this text inside a span.
ReferenceSpan == <<SPAN, "/", "${variable.name}", SPANEND>>

\* variables.forEach(...): one replacement pass per variable, in list order
RECURSIVE SpanReferences(_, _)
SpanReferences(w, vs) ==
    IF vs = <<>> THEN w
    ELSE SpanReferences(ReplaceReferences(w, Head(vs).name, ReferenceSpan), Tail(vs))

\* The content of one note as it is put between <div class="content"> and </div>
ExportedContent(n, vs) ==
    ReplaceChar(SpanReferences(SpanMarked(EscapeHtml(n.content)), vs), "N", "<br>")

\* `${note.tags.map(tag => `<span class="tag">#${tag}</span>`).join('')}`
RECURSIVE ExportedTags(_)
ExportedTags(tags) ==
    IF tags = <<>> THEN <<>>
    ELSE <<"<span class=\"tag\">", "#">> \o Head(tags) \o <<SPANEND>>
         \o ExportedTags(Tail(tags))

\* downloadNotesAsHTML: the title, the header and one div per note
Html(n, fn, vs) ==
    <<"<title>">> \o (IF fn # UNDEF THEN fn \o <<" Notes">> ELSE <<"Notes">>)
    \o <<"</title>", "<div class=\"title\">">>
    \o (IF fn # UNDEF THEN fn \o <<" Notes">> ELSE <<"All Notes">>)
    \o <<"</div>", "<div class=\"note\">">>
    \o (IF n.tags # <<>>
        THEN <<"<div class=\"tags\">">> \o ExportedTags(n.tags) \o <<"</div>">>
        ELSE <<>>)
    \o (IF n.folder # GENERAL /\ fn = UNDEF
        THEN <<"<div class=\"folder-info\">", "Folder: ">> \o n.folder \o <<"</div>">>
        ELSE <<>>)
    \o <<"<div class=\"content\">">> \o ExportedContent(n, vs) \o <<"</div>", "</div>">>

\* The user picks "HTML" in the download menu; each behaviour has one export.
DownloadNotesAsHTML(n, fn) ==
    /\ lastOp = "mount"
    /\ shownNote' = n
    /\ folderName' = fn
    /\ html' = Html(n, fn, tvars)
    /\ lastOp' = "downloadNotesAsHTML"
    /\ UNCHANGED <<tvars, content, cursor, showAutocomplete, autocompletePosition,
                   filteredOptions, selectedIndex, submitted, attachedFiles,
                   parts, serverVars, clientVars, importVars>>

NextDownload == \E n \in ExportedNotes, fn \in FolderNameProps : DownloadNotesAsHTML(n, fn)

SpecDownload == InitText /\ [][NextDownload]_vars

\* C23: in the HTML export every '<', '>' and '&' that comes from user text
\* (note content, tags, folder names) is emitted as an entity: the document
\* holds none of these characters outside the export's own pieces.
C23_UserTextEscaped ==
    lastOp = "downloadNotesAsHTML" =>
        \A k \in DOMAIN html : html[k] \notin {"<", ">", "&"}
====
